---- MODULE Spec2Model ----
(***************************************************************************)
(* Model of the Cassandra bulk-load data preparation scripts:              *)
(*   generate_usertomessage.py   UserToMessage row generator               *)
(*   generator_chats_peerids.py  Chats / PeerIds generators                *)
(*   dsbulk_generate.py, generate.py, no_batch.py   Message generators     *)
(*   docker_dsbulk_loader.py     SQL INSERT -> CSV converter               *)
(*                                                                         *)
(* Text is modelled as a sequence of one-character strings.  Every draw    *)
(* from the random module is a nondeterministic choice.  Each component    *)
(* has its own specification (SpecU2M, SpecPeer, SpecMsg, SpecParse,       *)
(* SpecClean, SpecEscape); the variables of the other components keep      *)
(* their initial values there.                                             *)
(***************************************************************************)
EXTENDS Integers, Sequences, FiniteSets, TLC

\* ------------------------------------------------------------------------
\* Bounds of the model
\* ------------------------------------------------------------------------

\* longest value-tuple text given to parse_sql_values
MaxLen == 4

\* longest token given to clean_value besides the TRUE/FALSE/NULL variants
MaxTokLen == 3

\* longest string given to escape_csv_value
MaxStrLen == 3

\* the per-pair cap of generate_unique_message_key (the literal 1000 of
\* generate_usertomessage.py:83), scaled down so that a pair reaches it
MaxPerPair == 3

\* how far past the cap a pinned pair is followed
MaxOverflow == 1

\* rows of one PeerIds run
MaxPeerRows == 3

\* largest offset drawn after invite_ts (the code draws from 0..180 days)
MaxOffset == 1

\* largest perturbation step (the code draws from 1..10)
MaxIncrement == 2

\* largest count argument of a Message writer
MaxMsgCount == 2001

\* longest text field of a message followed on the two paths to CSV
MaxPathText == 2

\* largest count of the two runs compared for determinism
MaxDetRows == 1

\* most INSERT statements of a converted file
MaxInserts == 2

\* most rows drawn from one generator instance
MaxInstRows == 3

\* ------------------------------------------------------------------------
\* Program constants
\* ------------------------------------------------------------------------

\* while pair in used_pairs and attempts < 10
MaxAttempts == 10

\* bucket = message_id // 1000
BucketSize == 1000

\* BUFFER_SIZE = 1000 / len(buffer) >= 1000
BufferSize == 1000

\* Python's None where an id is expected: a value no id takes
None == 0 - 1

\* no row returned yet
NoRow == [none |-> TRUE]

\* ------------------------------------------------------------------------
\* Text helpers (Python str methods, on sequences of characters)
\* ------------------------------------------------------------------------

SQ == "'"
DQ == "\""
NL == "\n"
BS == "\\"
SP == " "

\* characters str.strip() removes
Whitespace == {SP, NL}

SeqsUpTo(A, n) == UNION {[1..k -> A] : k \in 0..n}

Contains(s, c) == \E k \in 1..Len(s) : s[k] = c

StartsWith(s, c) == Len(s) > 0 /\ s[1] = c

EndsWith(s, c) == Len(s) > 0 /\ s[Len(s)] = c

RECURSIVE LStrip(_)
LStrip(s) ==
    IF s = <<>> THEN <<>>
    ELSE IF Head(s) \in Whitespace THEN LStrip(Tail(s)) ELSE s

RECURSIVE RStrip(_)
RStrip(s) ==
    IF s = <<>> THEN <<>>
    ELSE IF s[Len(s)] \in Whitespace THEN RStrip(SubSeq(s, 1, Len(s) - 1)) ELSE s

\* str.strip()
Strip(s) == RStrip(LStrip(s))

\* str.replace(c, rep) for a one-character pattern c
RECURSIVE ReplaceChar(_, _, _)
ReplaceChar(s, c, rep) ==
    IF s = <<>> THEN <<>>
    ELSE (IF Head(s) = c THEN rep ELSE <<Head(s)>>) \o ReplaceChar(Tail(s), c, rep)

\* str.replace("''", "'"): leftmost non-overlapping occurrences
RECURSIVE UndoubleSQ(_)
UndoubleSQ(s) ==
    IF Len(s) < 2 THEN s
    ELSE IF s[1] = SQ /\ s[2] = SQ
         THEN <<SQ>> \o UndoubleSQ(SubSeq(s, 3, Len(s)))
         ELSE <<s[1]>> \o UndoubleSQ(Tail(s))

\* str.upper() on the letters the tokens use
UpperChar(c) ==
    CASE c = "t" -> "T" [] c = "r" -> "R" [] c = "u" -> "U" [] c = "e" -> "E"
      [] c = "f" -> "F" [] c = "a" -> "A" [] c = "l" -> "L" [] c = "s" -> "S"
      [] c = "n" -> "N" [] OTHER -> c

Upper(s) == [k \in 1..Len(s) |-> UpperChar(s[k])]

Lower(s) ==
    [k \in 1..Len(s) |->
        CASE s[k] = "T" -> "t" [] s[k] = "R" -> "r" [] s[k] = "U" -> "u"
          [] s[k] = "E" -> "e" [] s[k] = "F" -> "f" [] s[k] = "A" -> "a"
          [] s[k] = "L" -> "l" [] s[k] = "S" -> "s" [] s[k] = "N" -> "n"
          [] OTHER -> s[k]]

Digit(d) ==
    CASE d = 0 -> "0" [] d = 1 -> "1" [] d = 2 -> "2" [] d = 3 -> "3" [] d = 4 -> "4"
      [] d = 5 -> "5" [] d = 6 -> "6" [] d = 7 -> "7" [] d = 8 -> "8" [] d = 9 -> "9"

RECURSIVE NatToStr(_)
NatToStr(n) == IF n < 10 THEN <<Digit(n)>> ELSE NatToStr(n \div 10) \o <<Digit(n % 10)>>

\* str(n) for an int
IntToStr(n) == IF n < 0 THEN <<"-">> \o NatToStr(0 - n) ELSE NatToStr(n)

\* str(b) for a bool: 'True' / 'False'
BoolToStr(b) == IF b THEN <<"T", "r", "u", "e">> ELSE <<"F", "a", "l", "s", "e">>

\* sep.join(parts)
RECURSIVE Join(_, _)
Join(parts, sep) ==
    IF parts = <<>> THEN <<>>
    ELSE IF Len(parts) = 1 THEN parts[1]
    ELSE parts[1] \o sep \o Join(Tail(parts), sep)

\* str(xs) for a list of ints: '[1, 2, 3]'
ListToStr(xs) == <<"[">> \o Join([k \in 1..Len(xs) |-> IntToStr(xs[k])], <<",", SP>>) \o <<"]">>

\* ------------------------------------------------------------------------
\* docker_dsbulk_loader.py: clean_value
\* ------------------------------------------------------------------------

TRUE_TOKEN == <<"T", "R", "U", "E">>
FALSE_TOKEN == <<"F", "A", "L", "S", "E">>
NULL_TOKEN == <<"N", "U", "L", "L">>
true_text == <<"t", "r", "u", "e">>
false_text == <<"f", "a", "l", "s", "e">>

\* value.startswith("'") and value.endswith("'")
QuoteWrapped(value) == StartsWith(value, SQ) /\ EndsWith(value, SQ)

\* value[1:-1].replace("''", "'")
Unquote(value) == UndoubleSQ(SubSeq(value, 2, Len(value) - 1))

\* faulty variant: the boolean and NULL keywords are compared without upper()
clean_value_case_sensitive(value) ==
    IF value = <<>> THEN <<>>
    ELSE IF value = TRUE_TOKEN THEN true_text
    ELSE IF value = FALSE_TOKEN THEN false_text
    ELSE IF value = NULL_TOKEN THEN <<>>
    ELSE IF QuoteWrapped(value) THEN Unquote(value)
    ELSE value

clean_value(value) ==
    IF value = <<>> THEN <<>>
    ELSE IF Upper(value) = TRUE_TOKEN THEN true_text
    ELSE IF Upper(value) = FALSE_TOKEN THEN false_text
    ELSE IF Upper(value) = NULL_TOKEN THEN <<>>
    ELSE IF QuoteWrapped(value) THEN Unquote(value)
    ELSE value

\* ------------------------------------------------------------------------
\* dsbulk_generate.py: escape_csv_value
\* A Python value is a record: [type |-> "none"], [type |-> "bool", v |-> b],
\* [type |-> "int", v |-> n], [type |-> "str", v |-> text],
\* [type |-> "list", v |-> <<ints>>].
\* ------------------------------------------------------------------------

PyNone == [type |-> "none"]
PyBool(b) == [type |-> "bool", v |-> b]
PyInt(n) == [type |-> "int", v |-> n]
PyStr(s) == [type |-> "str", v |-> s]
PyList(xs) == [type |-> "list", v |-> xs]

\* ',' in s or '\n' in s or '"' in s
HasSpecial(s) == Contains(s, ",") \/ Contains(s, NL) \/ Contains(s, DQ)

\* faulty variant: the inner quotes are not doubled
QuoteCsv_not_doubled(s) == <<DQ>> \o s \o <<DQ>>

\* f'"{escaped}"' with escaped = s.replace('"', '""')
QuoteCsv(s) == <<DQ>> \o ReplaceChar(s, DQ, <<DQ, DQ>>) \o <<DQ>>

\* value.strip().startswith('{') and value.strip().endswith('}')
LooksJson(s) == StartsWith(Strip(s), "{") /\ EndsWith(Strip(s), "}")

\* faulty variant: the JSON branch is missing (the encoder of generate_usertomessage.py)
escape_csv_value_no_json(value) ==
    IF value.type = "none" THEN <<>>
    ELSE IF value.type = "bool" THEN Lower(BoolToStr(value.v))
    ELSE IF value.type = "int" THEN IntToStr(value.v)
    ELSE IF value.type = "str"
         THEN IF HasSpecial(value.v) THEN QuoteCsv(value.v) ELSE value.v
    ELSE IF HasSpecial(ListToStr(value.v)) THEN QuoteCsv(ListToStr(value.v))
    ELSE ListToStr(value.v)

escape_csv_value(value) ==
    IF value.type = "none" THEN <<>>
    ELSE IF value.type = "bool" THEN Lower(BoolToStr(value.v))
    ELSE IF value.type = "int" THEN IntToStr(value.v)
    ELSE IF value.type = "str"
         THEN IF LooksJson(value.v) THEN QuoteCsv(value.v)
              ELSE IF HasSpecial(value.v) THEN QuoteCsv(value.v)
              ELSE value.v
    ELSE IF HasSpecial(ListToStr(value.v)) THEN QuoteCsv(ListToStr(value.v))
    ELSE ListToStr(value.v)

\* generate_usertomessage.py: escape_csv_value (no JSON branch)
u2m_escape_csv_value(value) ==
    IF value.type = "none" THEN <<>>
    ELSE IF value.type = "bool" THEN Lower(BoolToStr(value.v))
    ELSE IF value.type = "int" THEN IntToStr(value.v)
    ELSE IF value.type = "str"
         THEN IF HasSpecial(value.v) THEN QuoteCsv(value.v) ELSE value.v
    ELSE IF HasSpecial(ListToStr(value.v)) THEN QuoteCsv(ListToStr(value.v))
    ELSE ListToStr(value.v)

\* generator_chats_peerids.py: escape_csv_value; the quotes are doubled
\* first, the special characters are looked for in the doubled text, and
\* a list is returned as str(value)
peer_escape_csv_value(value) ==
    IF value.type = "none" THEN <<>>
    ELSE IF value.type = "bool" THEN Lower(BoolToStr(value.v))
    ELSE IF value.type = "int" THEN IntToStr(value.v)
    ELSE IF value.type = "str"
         THEN LET doubled == IF Contains(value.v, DQ)
                             THEN ReplaceChar(value.v, DQ, <<DQ, DQ>>)
                             ELSE value.v
              IN  IF HasSpecial(doubled) THEN <<DQ>> \o doubled \o <<DQ>> ELSE doubled
    ELSE ListToStr(value.v)

\* ------------------------------------------------------------------------
\* State
\* ------------------------------------------------------------------------

VARIABLES
    \* parse_sql_values
    src_text,        \* the values_str argument
    values_str,      \* values_str after replace('\n', ' ').strip()
    scan_i,          \* i
    current,         \* current
    in_quotes,       \* in_quotes
    in_list,         \* in_list
    escape_next,     \* escape_next
    values,          \* values
    scan_pc,         \* "start", "scan", "done"
    scan_rule,       \* branch taken by the last scan step
    seps,            \* commas that took the separator branch so far
    warned,          \* the arity warning was printed
    \* clean_value
    cv_in, cv_out, cv_pc,
    \* escape_csv_value
    esc_in, esc_out, esc_pc,
    esc_u2m_out, esc_u2m_pc,     \* UserToMessageCSVGenerator.escape_csv_value on esc_in
    esc_peer_out, esc_peer_pc,   \* CassandraDataGenerator.escape_csv_value on esc_in
    \* UserToMessageCSVGenerator
    chat_local_counter,   \* self.chat_local_counter: (user_id, peer_id) -> int
    generated_messages,   \* self.generated_messages
    u2m_args,             \* (user_id, peer_id) arguments of the last call
    u2m_row,              \* row returned by the last generate_record_row call
    u2m_emitted,          \* per pair, the chat_local_id of its rows in emission order
    u2m_kinds,            \* kinds of call made so far: "pinned", "random"
    u2m_dup,              \* some call took the `if message_key in self.generated_messages` branch
    u2m_pc,               \* "idle", or "searching" inside generate_unique_message_key
    \* CassandraDataGenerator, PeerIds writers
    peer_mode,            \* "csv": generate_peerids_csv, "optimized": generate_optimized_peerids
    peer_count,           \* count
    peer_chat_ids,        \* chat_ids
    used_pairs,           \* used_pairs
    peer_written,         \* data rows handed to the csv writer, in order
    peer_buffer,          \* buffer of generate_optimized_peerids
    peer_total,           \* i / total_generated
    peer_chat_idx,        \* chat_idx
    peer_user_idx,        \* user_idx
    peer_users_in_chat,   \* users_in_chat
    peer_base_ts,         \* base_ts
    peer_attempts,        \* attempts when the retry loop of the last row ended
    peer_fresh,           \* the last row's pair was not in used_pairs when its loop ended
    peer_pc,              \* "rows", "chat", "users", "done"
    \* Message writers
    msg_mode,             \* which writer runs
    msg_count,            \* count
    msg_chat_arg,         \* chat_id argument
    msg_per_file,         \* records_per_file / batch_size
    msg_total,            \* total_generated / messages_generated
    msg_i,                \* i of the innermost loop
    msg_in_file,          \* records_in_file / batch_count
    msg_idx,              \* message_idx passed to the last row generator call
    msg_row,              \* row returned by the last row generator call
    msg_buffer,           \* buffer (chat_msg_local_id of each buffered row)
    msg_files,            \* output so far: one sequence of chat_msg_local_id per file or batch
    msg_blocks,           \* sizes of the blocks given to writer.writerows, in order
    msg_headers,          \* per file: the number of header lines written to it
    msg_generated,        \* the rows returned by the row generator, in order of the calls
    msg_pc,               \* "loop", "file", "done", "stopped"
    \* one Message on the two paths to CSV
    path_msg,             \* the values of the message
    path_pc,              \* parser path: "insert", "convert", "done"
    path_sql_line,        \* data line written by convert_sql_to_csv
    path_gen_pc,          \* generator path: "row", "done"
    path_gen_line,        \* data line written by generate_csv_file
    \* two runs of one generator with the same seed
    det_mode,             \* "peerids": CassandraDataGenerator, "messages": NoBatchMessageGenerator
    det_count,            \* count, the same in both runs
    det_stream,           \* values the seeded random module returns, in call order
    det_pos,              \* per run, how many of them the run has consumed
    det_out,              \* per run, the rows written so far
    \* convert_sql_to_csv over a file of several INSERT statements
    conv_inserts,         \* inserts: the value-tuple texts re.findall extracted, in file order
    conv_processed,       \* processed
    conv_rows,            \* the value lists handed to writer.writerow, in order (header left out)
    conv_warnings,        \* how many times the arity warning was printed
    conv_returned,        \* the value convert_sql_to_csv returned, None before it returns
    conv_pc,              \* "loop", "parse", "done"
    \* generator instances of one process, which share the random module
    rng_seed,             \* the seed last given to random.seed, the state of the random module
    rng_pos,              \* how many values the random module has returned since that seed
    inst_seed,            \* per generator instance: the seed of its constructor, None before it
    inst_rows             \* per generator instance: the rows it has produced, in order

parse_vars == <<src_text, values_str, scan_i, current, in_quotes, in_list,
                escape_next, values, scan_pc, scan_rule, seps, warned>>
clean_vars == <<cv_in, cv_out, cv_pc>>
escape_vars == <<esc_in, esc_out, esc_pc, esc_u2m_out, esc_u2m_pc, esc_peer_out, esc_peer_pc>>
u2m_vars == <<chat_local_counter, generated_messages, u2m_args, u2m_row, u2m_emitted,
              u2m_kinds, u2m_dup, u2m_pc>>
peer_vars == <<peer_mode, peer_count, peer_chat_ids, used_pairs, peer_written, peer_buffer,
               peer_total, peer_chat_idx, peer_user_idx, peer_users_in_chat, peer_base_ts,
               peer_attempts, peer_fresh, peer_pc>>
msg_vars == <<msg_mode, msg_count, msg_chat_arg, msg_per_file, msg_total, msg_i, msg_in_file,
              msg_idx, msg_row, msg_buffer, msg_files, msg_blocks, msg_headers, msg_generated, msg_pc>>

path_vars == <<path_msg, path_pc, path_sql_line, path_gen_pc, path_gen_line>>

det_vars == <<det_mode, det_count, det_stream, det_pos, det_out>>

conv_vars == <<conv_inserts, conv_processed, conv_rows, conv_warnings, conv_returned, conv_pc>>

inst_vars == <<rng_seed, rng_pos, inst_seed, inst_rows>>

vars == <<parse_vars, clean_vars, escape_vars, u2m_vars, peer_vars, msg_vars, path_vars,
          det_vars, conv_vars, inst_vars>>

\* what the actions of one component leave alone
not_parse == <<clean_vars, escape_vars, u2m_vars, peer_vars, msg_vars, path_vars, det_vars,
          conv_vars, inst_vars>>
not_clean == <<parse_vars, escape_vars, u2m_vars, peer_vars, msg_vars, path_vars, det_vars,
          conv_vars, inst_vars>>
not_escape == <<parse_vars, clean_vars, u2m_vars, peer_vars, msg_vars, path_vars, det_vars,
          conv_vars, inst_vars>>
not_u2m == <<parse_vars, clean_vars, escape_vars, peer_vars, msg_vars, path_vars, det_vars,
          conv_vars, inst_vars>>
not_peer == <<parse_vars, clean_vars, escape_vars, u2m_vars, msg_vars, path_vars, det_vars,
          conv_vars, inst_vars>>
not_msg == <<parse_vars, clean_vars, escape_vars, u2m_vars, peer_vars, path_vars, det_vars,
          conv_vars, inst_vars>>
not_path == <<clean_vars, escape_vars, u2m_vars, peer_vars, msg_vars, det_vars, conv_vars,
          inst_vars>>
not_conv == <<clean_vars, escape_vars, u2m_vars, peer_vars, msg_vars, path_vars, det_vars,
          inst_vars>>
not_inst == <<parse_vars, clean_vars, escape_vars, u2m_vars, peer_vars, msg_vars, path_vars,
             det_vars, conv_vars>>
not_det == <<parse_vars, clean_vars, escape_vars, u2m_vars, peer_vars, msg_vars, path_vars,
          conv_vars, inst_vars>>

\* ------------------------------------------------------------------------
\* docker_dsbulk_loader.py: parse_sql_values, one action per branch of the scan
\* ------------------------------------------------------------------------

\* characters of the value-tuple texts
ParseChars == {SQ, ",", "[", "]", BS, SP, NL, "a"}

ParseIdle ==
    /\ src_text = <<>> /\ values_str = <<>> /\ scan_i = 0 /\ current = <<>>
    /\ in_quotes = FALSE /\ in_list = FALSE /\ escape_next = FALSE
    /\ values = <<>> /\ scan_pc = "start" /\ scan_rule = "none" /\ seps = 0
    /\ warned = FALSE

InitParse ==
    /\ src_text \in SeqsUpTo(ParseChars, MaxLen)
    /\ values_str = <<>> /\ scan_i = 0 /\ current = <<>>
    /\ in_quotes = FALSE /\ in_list = FALSE /\ escape_next = FALSE
    /\ values = <<>> /\ scan_pc = "start" /\ scan_rule = "none" /\ seps = 0
    /\ warned = FALSE

\* the character under the scan, values_str[i]
Char == values_str[scan_i + 1]

\* i < len(values_str)
Scanning == scan_pc = "scan" /\ scan_i < Len(values_str)

\* i + 1 < len(values_str) and values_str[i + 1] == "'"
NextIsQuote == scan_i + 1 < Len(values_str) /\ values_str[scan_i + 2] = SQ

\* values_str = values_str.replace('\n', ' ').strip(); i = 0
ParseBegin ==
    /\ scan_pc = "start"
    /\ values_str' = Strip(ReplaceChar(src_text, NL, <<SP>>))
    /\ scan_pc' = "scan"
    /\ scan_rule' = "begin"
    /\ UNCHANGED <<src_text, scan_i, current, in_quotes, in_list, escape_next,
                   values, seps, warned>>
    /\ UNCHANGED not_parse

\* if escape_next: current += char; escape_next = False
ScanEscaped ==
    /\ Scanning
    /\ escape_next
    /\ current' = Append(current, Char)
    /\ escape_next' = FALSE
    /\ scan_i' = scan_i + 1
    /\ scan_rule' = "escaped"
    /\ UNCHANGED <<src_text, values_str, in_quotes, in_list, values, scan_pc, seps, warned>>
    /\ UNCHANGED not_parse

\* elif char == '\\': escape_next = True
ScanBackslash ==
    /\ Scanning
    /\ ~escape_next
    /\ Char = BS
    /\ escape_next' = TRUE
    /\ scan_i' = scan_i + 1
    /\ scan_rule' = "backslash"
    /\ UNCHANGED <<src_text, values_str, current, in_quotes, in_list, values, scan_pc,
                   seps, warned>>
    /\ UNCHANGED not_parse

\* elif char == "'" and not in_quotes: in_quotes = True
ScanOpenQuote ==
    /\ Scanning
    /\ ~escape_next
    /\ Char = SQ
    /\ ~in_quotes
    /\ in_quotes' = TRUE
    /\ scan_i' = scan_i + 1
    /\ scan_rule' = "open_quote"
    /\ UNCHANGED <<src_text, values_str, current, in_list, escape_next, values, scan_pc,
                   seps, warned>>
    /\ UNCHANGED not_parse

\* faulty variant: the doubled quote closes the string like a single one
ScanDoubledQuote_closes ==
    /\ Scanning
    /\ ~escape_next
    /\ Char = SQ
    /\ in_quotes
    /\ NextIsQuote
    /\ in_quotes' = FALSE
    /\ scan_i' = scan_i + 1
    /\ scan_rule' = "doubled_quote"
    /\ UNCHANGED <<src_text, values_str, current, in_list, escape_next, values, scan_pc,
                   seps, warned>>
    /\ UNCHANGED not_parse

\* elif char == "'" and in_quotes, next character is a quote:
\*     current += "'"; i += 1
ScanDoubledQuote ==
    /\ Scanning
    /\ ~escape_next
    /\ Char = SQ
    /\ in_quotes
    /\ NextIsQuote
    /\ current' = Append(current, SQ)
    /\ scan_i' = scan_i + 2
    /\ scan_rule' = "doubled_quote"
    /\ UNCHANGED <<src_text, values_str, in_quotes, in_list, escape_next, values, scan_pc,
                   seps, warned>>
    /\ UNCHANGED not_parse

\* elif char == "'" and in_quotes, otherwise: in_quotes = False
ScanCloseQuote ==
    /\ Scanning
    /\ ~escape_next
    /\ Char = SQ
    /\ in_quotes
    /\ ~NextIsQuote
    /\ in_quotes' = FALSE
    /\ scan_i' = scan_i + 1
    /\ scan_rule' = "close_quote"
    /\ UNCHANGED <<src_text, values_str, current, in_list, escape_next, values, scan_pc,
                   seps, warned>>
    /\ UNCHANGED not_parse

\* elif char == '[' and not in_quotes: in_list = True; current += char
ScanOpenBracket ==
    /\ Scanning
    /\ ~escape_next
    /\ Char = "["
    /\ ~in_quotes
    /\ in_list' = TRUE
    /\ current' = Append(current, Char)
    /\ scan_i' = scan_i + 1
    /\ scan_rule' = "open_bracket"
    /\ UNCHANGED <<src_text, values_str, in_quotes, escape_next, values, scan_pc,
                   seps, warned>>
    /\ UNCHANGED not_parse

\* elif char == ']' and in_list: in_list = False; current += char
ScanCloseBracket ==
    /\ Scanning
    /\ ~escape_next
    /\ Char = "]"
    /\ in_list
    /\ in_list' = FALSE
    /\ current' = Append(current, Char)
    /\ scan_i' = scan_i + 1
    /\ scan_rule' = "close_bracket"
    /\ UNCHANGED <<src_text, values_str, in_quotes, escape_next, values, scan_pc,
                   seps, warned>>
    /\ UNCHANGED not_parse

\* elif char == ',' and not in_quotes and not in_list:
\*     values.append(self.clean_value(current.strip())); current = ''
ScanComma ==
    /\ Scanning
    /\ ~escape_next
    /\ Char = ","
    /\ ~in_quotes
    /\ ~in_list
    /\ values' = Append(values, clean_value(Strip(current)))
    /\ current' = <<>>
    /\ seps' = seps + 1
    /\ scan_i' = scan_i + 1
    /\ scan_rule' = "comma"
    /\ UNCHANGED <<src_text, values_str, in_quotes, in_list, escape_next, scan_pc, warned>>
    /\ UNCHANGED not_parse

\* else: current += char
ScanOther ==
    /\ Scanning
    /\ ~escape_next
    /\ Char # BS
    /\ Char # SQ
    /\ ~(Char = "[" /\ ~in_quotes)
    /\ ~(Char = "]" /\ in_list)
    /\ ~(Char = "," /\ ~in_quotes /\ ~in_list)
    /\ current' = Append(current, Char)
    /\ scan_i' = scan_i + 1
    /\ scan_rule' = "other"
    /\ UNCHANGED <<src_text, values_str, in_quotes, in_list, escape_next, values, scan_pc,
                   seps, warned>>
    /\ UNCHANGED not_parse

\* the values list when the loop has ended: if current: values.append(...)
FinalValues == IF current # <<>> THEN Append(values, clean_value(Strip(current))) ELSE values

\* after the loop: the last value, the arity check, return values
ScanFinish ==
    /\ scan_pc = "scan"
    /\ scan_i >= Len(values_str)
    /\ values' = FinalValues
    /\ warned' = (Len(FinalValues) # 15)
    /\ scan_pc' = "done"
    /\ scan_rule' = "finish"
    /\ UNCHANGED <<src_text, values_str, scan_i, current, in_quotes, in_list,
                   escape_next, seps>>
    /\ UNCHANGED not_parse

ScanStep ==
    \/ ScanEscaped
    \/ ScanBackslash
    \/ ScanOpenQuote
    \/ ScanDoubledQuote
    \/ ScanCloseQuote
    \/ ScanOpenBracket
    \/ ScanCloseBracket
    \/ ScanComma
    \/ ScanOther

\* ------------------------------------------------------------------------
\* clean_value and escape_csv_value called on their own
\* ------------------------------------------------------------------------

\* every upper/lower-case spelling of a keyword
CaseVariants(word) ==
    {[k \in 1..Len(word) |-> IF low[k] THEN Lower(word)[k] ELSE word[k]] :
        low \in [1..Len(word) -> BOOLEAN]}

TokenChars == {SQ, "[", "]", SP, "a", "1"}

Tokens ==
    CaseVariants(TRUE_TOKEN) \cup CaseVariants(FALSE_TOKEN) \cup CaseVariants(NULL_TOKEN)
        \cup SeqsUpTo(TokenChars, MaxTokLen)

CleanIdle == cv_in = <<>> /\ cv_out = <<>> /\ cv_pc = "idle"

InitClean == cv_in \in Tokens /\ cv_out = <<>> /\ cv_pc = "call"

CleanValueCall ==
    /\ cv_pc = "call"
    /\ cv_out' = clean_value(cv_in)
    /\ cv_pc' = "done"
    /\ UNCHANGED cv_in
    /\ UNCHANGED not_clean

EscChars == {"{", "}", ",", DQ, NL, SP, "a", "7"}

EscInts == {-12, -1, 0, 1, 7, 10, 1000, 2592000}

EscLists == {<<>>, <<7>>, <<7, 10>>}

EscValues ==
    {PyNone} \cup {PyBool(b) : b \in BOOLEAN} \cup {PyInt(n) : n \in EscInts}
        \cup {PyStr(s) : s \in SeqsUpTo(EscChars, MaxStrLen)}
        \cup {PyList(xs) : xs \in EscLists}

EscapeIdle ==
    /\ esc_in = PyNone /\ esc_out = <<>> /\ esc_pc = "idle"
    /\ esc_u2m_out = <<>> /\ esc_u2m_pc = "idle"
    /\ esc_peer_out = <<>> /\ esc_peer_pc = "idle"

\* the same value is handed to the encoder of each generator
InitEscape ==
    /\ esc_in \in EscValues /\ esc_out = <<>> /\ esc_pc = "call"
    /\ esc_u2m_out = <<>> /\ esc_u2m_pc = "call"
    /\ esc_peer_out = <<>> /\ esc_peer_pc = "call"

\* CSVDsbulkGenerator.escape_csv_value(esc_in)
EscapeCall ==
    /\ esc_pc = "call"
    /\ esc_out' = escape_csv_value(esc_in)
    /\ esc_pc' = "done"
    /\ UNCHANGED <<esc_in, esc_u2m_out, esc_u2m_pc, esc_peer_out, esc_peer_pc>>
    /\ UNCHANGED not_escape

\* UserToMessageCSVGenerator.escape_csv_value(esc_in)
EscapeCallU2M ==
    /\ esc_u2m_pc = "call"
    /\ esc_u2m_out' = u2m_escape_csv_value(esc_in)
    /\ esc_u2m_pc' = "done"
    /\ UNCHANGED <<esc_in, esc_out, esc_pc, esc_peer_out, esc_peer_pc>>
    /\ UNCHANGED not_escape

\* CassandraDataGenerator.escape_csv_value(esc_in)
EscapeCallPeer ==
    /\ esc_peer_pc = "call"
    /\ esc_peer_out' = peer_escape_csv_value(esc_in)
    /\ esc_peer_pc' = "done"
    /\ UNCHANGED <<esc_in, esc_out, esc_pc, esc_u2m_out, esc_u2m_pc>>
    /\ UNCHANGED not_escape

\* ------------------------------------------------------------------------
\* generate_usertomessage.py: UserToMessageCSVGenerator
\* The flags field of a row is drawn independently of the counters and is
\* left out of the rows.
\* ------------------------------------------------------------------------

\* self.users, self.peers (the code's ranges start at 1000)
Users == {1000, 1001}
Peers == {1000, 1001}

\* d[key] = v on a dict
Put(d, key, v) == [k \in DOMAIN d \cup {key} |-> IF k = key THEN v ELSE d[k]]

\* d.get(key, 0)
Get0(d, key) == IF key \in DOMAIN d THEN d[key] ELSE 0

U2MIdle ==
    /\ chat_local_counter = <<>>
    /\ generated_messages = {}
    /\ u2m_args = <<None, None>>
    /\ u2m_row = NoRow
    /\ u2m_emitted = [k \in Users \X Peers |-> <<>>]
    /\ u2m_kinds = {}
    /\ u2m_dup = FALSE
    /\ u2m_pc = "idle"

\* __init__
InitU2M == U2MIdle

\* faulty variant: the counter is returned without being advanced
get_next_chat_local_id_stale(counter, key) == Put(counter, key, Get0(counter, key))

\* get_next_chat_local_id: the counter after the call; the call returns
\* its entry for key
get_next_chat_local_id(counter, key) == Put(counter, key, Get0(counter, key) + 1)

\* generate_unique_message_key: the (user_id, peer_id, chat_local_id) triples
\* the search loop can return; it returns the first drawn pair that is
\* new or below the cap, and never returns when there is none
generate_unique_message_key(counter) ==
    {<<k[1], k[2], 1>> : k \in (Users \X Peers) \ DOMAIN counter}
        \cup {<<k[1], k[2], counter[k] + 1>> :
                 k \in {q \in DOMAIN counter : counter[q] < MaxPerPair}}

\* generate_record_row after user_id, peer_id, chat_local_id are set:
\* counter update, duplicate check, generated_messages.add, return
RecordRowTail(counter, user_id, peer_id, chat_local_id) ==
    LET key == <<user_id, peer_id>>
        dup == <<user_id, peer_id, chat_local_id>> \in generated_messages
        id == IF dup THEN chat_local_id + 1 ELSE chat_local_id
    IN  /\ chat_local_counter' = Put(counter, key, id)
        /\ generated_messages' = generated_messages \cup {<<user_id, peer_id, id>>}
        /\ u2m_row' = [user_id |-> user_id, peer_id |-> peer_id, chat_local_id |-> id]
        /\ u2m_emitted' = [u2m_emitted EXCEPT ![key] = Append(@, id)]
        /\ u2m_dup' = (u2m_dup \/ dup)

\* generate_record_row(record_idx, user_id, peer_id) with both ids given
GenerateRecordRowPinned ==
    /\ u2m_pc = "idle"
    /\ \E ua \in Users, pa \in Peers :
        /\ Get0(chat_local_counter, <<ua, pa>>) < MaxPerPair + MaxOverflow
        /\ u2m_args' = <<ua, pa>>
        /\ LET counter == get_next_chat_local_id(chat_local_counter, <<ua, pa>>)
           IN  RecordRowTail(counter, ua, pa, counter[<<ua, pa>>])
    /\ u2m_kinds' = u2m_kinds \cup {"pinned"}
    /\ UNCHANGED u2m_pc
    /\ UNCHANGED not_u2m

\* generate_record_row(record_idx, user_id, peer_id) with user_id or peer_id
\* None: the pair comes from generate_unique_message_key
GenerateRecordRowRandom ==
    /\ u2m_pc = "idle"
    /\ \E ua \in Users \cup {None}, pa \in Peers \cup {None} :
        /\ ua = None \/ pa = None
        /\ u2m_args' = <<ua, pa>>
        /\ \E t \in generate_unique_message_key(chat_local_counter) :
              RecordRowTail(chat_local_counter, t[1], t[2], t[3])
    /\ u2m_kinds' = u2m_kinds \cup {"random"}
    /\ UNCHANGED u2m_pc
    /\ UNCHANGED not_u2m

\* the same call when every pair is at the cap: the while True loop of
\* generate_unique_message_key draws pairs for ever
GenerateRecordRowSearching ==
    /\ u2m_pc = "idle"
    /\ generate_unique_message_key(chat_local_counter) = {}
    /\ \E ua \in Users \cup {None}, pa \in Peers \cup {None} :
        /\ ua = None \/ pa = None
        /\ u2m_args' = <<ua, pa>>
    /\ u2m_pc' = "searching"
    /\ UNCHANGED <<chat_local_counter, generated_messages, u2m_row, u2m_emitted, u2m_kinds,
                   u2m_dup>>
    /\ UNCHANGED not_u2m

\* ------------------------------------------------------------------------
\* generator_chats_peerids.py: the two PeerIds writers
\* A row keeps user_id, chat_id, invite_timestamp and last_message_ts; the
\* other fields are independent draws.
\* ------------------------------------------------------------------------

\* self.user_ids
PeerUsers == {1000, 1001}

\* values of generate_timestamp(3)
Timestamps == {100}

\* random.randint(0, max_offset)
Offsets == 0..MaxOffset

\* random.randint(1, 10)
Increments == 1..MaxIncrement

PeerRow(user_id, chat_id, invite_ts, last_message_ts) ==
    [user_id |-> user_id, chat_id |-> chat_id, invite_timestamp |-> invite_ts,
     last_message_ts |-> last_message_ts]

\* the chat_ids arguments: generate_chats_csv returns self.chat_ids[:count]
ChatIdLists == {<<1000>>, <<1000, 1001>>}

Range(f) == {f[k] : k \in DOMAIN f}

Max(a, b) == IF a >= b THEN a ELSE b

Min(a, b) == IF a <= b THEN a ELSE b

PeerIdle ==
    /\ peer_mode = "none" /\ peer_count = 0 /\ peer_chat_ids = <<>>
    /\ used_pairs = {} /\ peer_written = <<>> /\ peer_buffer = <<>>
    /\ peer_total = 0 /\ peer_chat_idx = 0 /\ peer_user_idx = 0
    /\ peer_users_in_chat = 0 /\ peer_base_ts = 0
    /\ peer_attempts = 0 /\ peer_fresh = TRUE /\ peer_pc = "done"

\* main: one of the two writers is called with count and chat_ids
InitPeer ==
    /\ peer_mode \in {"csv", "optimized"}
    /\ peer_count \in 0..MaxPeerRows
    /\ peer_chat_ids \in ChatIdLists
    /\ used_pairs = {} /\ peer_written = <<>> /\ peer_buffer = <<>>
    /\ peer_total = 0 /\ peer_chat_idx = 0 /\ peer_user_idx = 0
    /\ peer_users_in_chat = 0 /\ peer_base_ts = 0
    /\ peer_attempts = 0 /\ peer_fresh = TRUE
    /\ peer_pc = IF peer_mode = "csv" THEN "rows" ELSE "chat"

\* the timestamps the retry loop can hold after exactly n perturbations,
\* starting from the set now after done perturbations
RECURSIVE AfterAttempts(_, _, _, _, _)
AfterAttempts(used, user_id, now, done, n) ==
    IF done = n THEN now
    ELSE AfterAttempts(used, user_id,
                       {t + d : t \in {x \in now : <<user_id, x>> \in used}, d \in Increments},
                       done + 1, n)

\* faulty variant: the loop never perturbs
RetryOutcomes_no_retry(used, user_id, last_message_ts) ==
    {[ts |-> last_message_ts, attempts |-> 0]}

\* while pair in used_pairs and attempts < 10:
\*     last_message_ts += random.randint(1, 10); attempts += 1
\* the (last_message_ts, attempts) the loop can end with
RetryOutcomes(used, user_id, last_message_ts) ==
    UNION {{[ts |-> t, attempts |-> n] :
               t \in {x \in AfterAttempts(used, user_id, {last_message_ts}, 0, n) :
                         <<user_id, x>> \notin used}} :
           n \in 0..(MaxAttempts - 1)}
    \cup {[ts |-> t, attempts |-> MaxAttempts] :
             t \in AfterAttempts(used, user_id, {last_message_ts}, 0, MaxAttempts)}

\* one iteration of the for loop of generate_peerids_csv
PeerCsvRow ==
    /\ peer_mode = "csv" /\ peer_pc = "rows"
    /\ peer_total < peer_count
    /\ \E user_id \in PeerUsers, chat_id \in Range(peer_chat_ids),
          invite_ts \in Timestamps, offset \in Offsets :
        \E o \in RetryOutcomes(used_pairs, user_id, invite_ts + offset) :
            /\ peer_attempts' = o.attempts
            /\ peer_fresh' = (<<user_id, o.ts>> \notin used_pairs)
            /\ used_pairs' = used_pairs \cup {<<user_id, o.ts>>}
            /\ peer_written' = Append(peer_written, PeerRow(user_id, chat_id, invite_ts, o.ts))
    /\ peer_total' = peer_total + 1
    /\ UNCHANGED <<peer_mode, peer_count, peer_chat_ids, peer_buffer, peer_chat_idx,
                   peer_user_idx, peer_users_in_chat, peer_base_ts, peer_pc>>
    /\ UNCHANGED not_peer

\* the for loop of generate_peerids_csv has ended
PeerCsvFinish ==
    /\ peer_mode = "csv" /\ peer_pc = "rows"
    /\ peer_total >= peer_count
    /\ peer_pc' = "done"
    /\ UNCHANGED <<peer_mode, peer_count, peer_chat_ids, used_pairs, peer_written,
                   peer_buffer, peer_total, peer_chat_idx, peer_user_idx,
                   peer_users_in_chat, peer_base_ts, peer_attempts, peer_fresh>>
    /\ UNCHANGED not_peer

\* records_per_chat = max(1, count // len(chat_ids))
RecordsPerChat == Max(1, peer_count \div Len(peer_chat_ids))

\* generate_optimized_peerids: the head of one iteration of the chat loop
PeerOptChat ==
    /\ peer_mode = "optimized" /\ peer_pc = "chat"
    /\ peer_chat_idx < Len(peer_chat_ids)
    /\ peer_total < peer_count
    /\ peer_users_in_chat' \in
          (IF peer_chat_idx < Len(peer_chat_ids) - 1
           THEN 1..(RecordsPerChat * 2)
           ELSE {Min(RecordsPerChat, peer_count - peer_total)})
    /\ peer_base_ts' \in Timestamps
    /\ peer_user_idx' = 0
    /\ peer_pc' = "users"
    /\ UNCHANGED <<peer_mode, peer_count, peer_chat_ids, used_pairs, peer_written,
                   peer_buffer, peer_total, peer_chat_idx, peer_attempts, peer_fresh>>
    /\ UNCHANGED not_peer

\* generate_optimized_peerids: one iteration of the user loop
PeerOptRow ==
    /\ peer_mode = "optimized" /\ peer_pc = "users"
    /\ peer_user_idx < peer_users_in_chat
    /\ peer_total < peer_count
    /\ \E user_id \in PeerUsers, week \in Offsets, offset \in Offsets :
        LET invite_ts == peer_base_ts + week
            row == PeerRow(user_id, peer_chat_ids[peer_chat_idx + 1], invite_ts,
                           invite_ts + offset)
            buffer == Append(peer_buffer, row)
        IN  IF Len(buffer) >= BufferSize
            THEN /\ peer_written' = peer_written \o buffer
                 /\ peer_buffer' = <<>>
            ELSE /\ peer_buffer' = buffer
                 /\ UNCHANGED peer_written
    /\ peer_total' = peer_total + 1
    /\ peer_user_idx' = peer_user_idx + 1
    /\ UNCHANGED <<peer_mode, peer_count, peer_chat_ids, used_pairs, peer_chat_idx,
                   peer_users_in_chat, peer_base_ts, peer_attempts, peer_fresh, peer_pc>>
    /\ UNCHANGED not_peer

\* generate_optimized_peerids: the user loop of one chat ends (range
\* exhausted or break)
PeerOptChatEnd ==
    /\ peer_mode = "optimized" /\ peer_pc = "users"
    /\ peer_user_idx >= peer_users_in_chat \/ peer_total >= peer_count
    /\ peer_chat_idx' = peer_chat_idx + 1
    /\ peer_pc' = "chat"
    /\ UNCHANGED <<peer_mode, peer_count, peer_chat_ids, used_pairs, peer_written,
                   peer_buffer, peer_total, peer_user_idx, peer_users_in_chat,
                   peer_base_ts, peer_attempts, peer_fresh>>
    /\ UNCHANGED not_peer

\* generate_optimized_peerids: the chat loop ends (list exhausted or
\* break); if buffer: writer.writerows(buffer)
PeerOptFinish ==
    /\ peer_mode = "optimized" /\ peer_pc = "chat"
    /\ peer_chat_idx >= Len(peer_chat_ids) \/ peer_total >= peer_count
    /\ peer_written' = peer_written \o peer_buffer
    /\ peer_pc' = "done"
    /\ UNCHANGED <<peer_mode, peer_count, peer_chat_ids, used_pairs, peer_buffer,
                   peer_total, peer_chat_idx, peer_user_idx, peer_users_in_chat,
                   peer_base_ts, peer_attempts, peer_fresh>>
    /\ UNCHANGED not_peer

\* ------------------------------------------------------------------------
\* dsbulk_generate.py, no_batch.py, generate.py: Message rows and writers
\* A row keeps chat_id, bucket, chat_msg_local_id, forwarded and
\* forwarded_message_ids; the other fields are independent draws.  A
\* written row is recorded by its chat_msg_local_id.
\* ------------------------------------------------------------------------

\* self.chats
Chats == {1000, 1001}

\* values of generate_forwarded_message_ids()
ForwardedLists == {<<>>, <<1000000>>}

\* count arguments
MsgCounts == {0, 1, MaxMsgCount - 1, MaxMsgCount}

\* records_per_file arguments
PerFileChoices == {700, 1000}

\* generate_message_id
generate_message_id(chat_id, local_id) == local_id

\* faulty variant: the bucket is ten times too fine
generate_bucket_wrong_size(message_id) == message_id \div (BucketSize \div 10)

\* generate_bucket
generate_bucket(message_id) == message_id \div BucketSize

MessageRow(chat_id, message_id, forwarded, forwarded_message_ids) ==
    [chat_id |-> chat_id,
     bucket |-> generate_bucket(message_id),
     chat_msg_local_id |-> message_id,
     forwarded |-> forwarded,
     forwarded_message_ids |-> forwarded_message_ids]

\* chat_id = random.choice(self.chats) if chat_id is None
ChatChoices(chat_arg) == IF chat_arg = None THEN Chats ELSE {chat_arg}

\* CSVDsbulkGenerator.generate_message_row: the rows one call can return;
\* forwarded is its own draw (random.random() < 0.15)
generate_message_row(message_idx, chat_arg) ==
    {MessageRow(chat_id, generate_message_id(chat_id, message_idx), forwarded, ids) :
        chat_id \in ChatChoices(chat_arg), forwarded \in BOOLEAN, ids \in ForwardedLists}

\* NoBatchMessageGenerator.generate_message / MessageGenerator.generate_message:
\* forwarded is len(generate_forwarded_message_ids()) > 0 of a first
\* draw, forwarded_message_ids is a second draw
generate_message(message_idx, chat_arg) ==
    {MessageRow(chat_id, generate_message_id(chat_id, message_idx), Len(first) > 0, ids) :
        chat_id \in ChatChoices(chat_arg), first \in ForwardedLists, ids \in ForwardedLists}

\* the writers: generate_csv_file, generate_optimized_csv and
\* generate_multiple_csv_files of CSVDsbulkGenerator and of
\* UserToMessageCSVGenerator, generate_file of NoBatchMessageGenerator, and
\* convert_sql_to_csv of DockerDSBulkLoader; "peer_optimized" is
\* generate_optimized_peerids of CassandraDataGenerator called with one chat
\* id, whose chat loop then has one iteration of count users
\* (users_in_chat = min(max(1, count // 1), count - 0))
WriterModes ==
    {"csv_file", "optimized_csv", "multiple_csv", "insert_file",
     "u2m_csv_file", "u2m_optimized_csv", "u2m_multiple_csv", "sql_to_csv",
     "peer_optimized"}

IsU2M(mode) == mode \in {"u2m_csv_file", "u2m_optimized_csv", "u2m_multiple_csv"}

IsSingleFile(mode) == mode \in {"csv_file", "u2m_csv_file"}

IsBuffered(mode) == mode \in {"optimized_csv", "u2m_optimized_csv", "peer_optimized"}

IsSharded(mode) == mode \in {"multiple_csv", "u2m_multiple_csv"}

\* the rows one call of the writer's row generator can return; the fields
\* of a UserToMessage row are those of generate_record_row, those of a
\* PeerIds row those of generate_peerid_row; they play no part in the
\* writers, so such a row is kept as NoRow
WriterRow(mode, idx, chat_arg) ==
    IF IsU2M(mode) \/ mode = "peer_optimized" THEN {NoRow}
    ELSE generate_message_row(idx, chat_arg)

\* how a written row is recorded: a Message row by its chat_msg_local_id,
\* a UserToMessage or PeerIds row by its index in the run
RowKey(row, idx) == IF row = NoRow THEN idx ELSE row.chat_msg_local_id

\* convert_sql_to_csv: inserts = re.findall(pattern, content, ...), the
\* statements of the file in file order; the file is one generate_file
\* wrote, so statement k holds the message of index k - 1, and a statement
\* is kept here by that index
Inserts(count) == [k \in 1..count |-> k - 1]

\* faulty variant of ShardIndex: the indices start again in every file
ShardIndex_restarts(total_generated, i) == i

\* generate_multiple_csv_files: the index total_generated + i of a row call
ShardIndex(total_generated, i) == total_generated + i

\* faulty variant of Cleared: the written rows stay in the buffer
Cleared_not(buffer) == buffer

\* generate_optimized_csv: buffer.clear()
Cleared(buffer) == <<>>

\* faulty variant of FlushDue: the block is written one row late
FlushDue_late(buffer) == Len(buffer) > BufferSize

\* generate_optimized_csv: if len(buffer) >= BUFFER_SIZE
FlushDue(buffer) == Len(buffer) >= BufferSize

\* faulty variant of records_in_file: every file is given a full share
records_in_file_full(records_per_file, count, total_generated) == records_per_file

\* generate_multiple_csv_files:
\* records_in_file = min(records_per_file, count - total_generated)
records_in_file(records_per_file, count, total_generated) ==
    Min(records_per_file, count - total_generated)

MsgIdle ==
    /\ msg_mode = "none" /\ msg_count = 0 /\ msg_chat_arg = None /\ msg_per_file = 0
    /\ msg_total = 0 /\ msg_i = 0 /\ msg_in_file = 0 /\ msg_idx = -1 /\ msg_row = NoRow
    /\ msg_buffer = <<>> /\ msg_files = <<>> /\ msg_blocks = <<>> /\ msg_pc = "done"
    /\ msg_headers = <<>> /\ msg_generated = <<>>

\* main: one writer is called with count, chat_id and records_per_file
InitMsg ==
    /\ msg_mode \in WriterModes
    /\ msg_count \in MsgCounts
    /\ msg_chat_arg \in (IF IsU2M(msg_mode) \/ msg_mode \in {"sql_to_csv", "peer_optimized"}
                          THEN {None} ELSE {None, 1000})
    /\ msg_per_file \in (IF IsSharded(msg_mode) THEN PerFileChoices ELSE {0})
    /\ msg_total = 0 /\ msg_i = 0 /\ msg_in_file = 0 /\ msg_idx = -1 /\ msg_row = NoRow
    /\ msg_buffer = <<>> /\ msg_blocks = <<>> /\ msg_generated = <<>>
    /\ msg_files = IF IsSharded(msg_mode) THEN <<>> ELSE << <<>> >>
    /\ msg_headers = IF IsSharded(msg_mode) THEN <<>>
                     ELSE IF msg_mode = "insert_file" THEN <<0>> ELSE <<1>>
    /\ msg_pc = "loop"

\* generate_csv_file: one iteration of for i in range(count)
MsgCsvFileRow ==
    /\ IsSingleFile(msg_mode) /\ msg_pc = "loop"
    /\ msg_i < msg_count
    /\ msg_idx' = msg_i
    /\ msg_row' \in WriterRow(msg_mode, msg_i, msg_chat_arg)
    /\ msg_generated' = Append(msg_generated, RowKey(msg_row', msg_i))
    /\ msg_files' = [msg_files EXCEPT ![1] = Append(@, RowKey(msg_row', msg_i))]
    /\ msg_total' = msg_total + 1
    /\ msg_i' = msg_i + 1
    /\ UNCHANGED <<msg_blocks, msg_headers, msg_mode, msg_count, msg_chat_arg, msg_per_file,
                   msg_in_file,
                   msg_buffer, msg_pc>>
    /\ UNCHANGED not_msg

\* generate_csv_file: the loop has ended
MsgCsvFileFinish ==
    /\ IsSingleFile(msg_mode) /\ msg_pc = "loop"
    /\ msg_i >= msg_count
    /\ msg_pc' = "done"
    /\ UNCHANGED <<msg_blocks, msg_headers, msg_generated, msg_mode, msg_count, msg_chat_arg,
                   msg_per_file, msg_total, msg_i,
                   msg_in_file, msg_idx, msg_row, msg_buffer, msg_files>>
    /\ UNCHANGED not_msg

\* generate_optimized_csv: one iteration; the buffer is written and
\* cleared when len(buffer) >= BUFFER_SIZE
MsgOptimizedRow ==
    /\ IsBuffered(msg_mode) /\ msg_pc = "loop"
    /\ msg_i < msg_count
    /\ msg_idx' = msg_i
    /\ msg_row' \in WriterRow(msg_mode, msg_i, msg_chat_arg)
    /\ msg_generated' = Append(msg_generated, RowKey(msg_row', msg_i))
    /\ LET buffer == Append(msg_buffer, RowKey(msg_row', msg_i))
       IN  IF FlushDue(buffer)
           THEN /\ msg_files' = [msg_files EXCEPT ![1] = @ \o buffer]
                /\ msg_blocks' = Append(msg_blocks, Len(buffer))
                /\ msg_buffer' = Cleared(buffer)
           ELSE /\ msg_buffer' = buffer
                /\ UNCHANGED <<msg_files, msg_blocks>>
    /\ msg_total' = msg_total + 1
    /\ msg_i' = msg_i + 1
    /\ UNCHANGED <<msg_headers, msg_mode, msg_count, msg_chat_arg, msg_per_file, msg_in_file,
                   msg_pc>>
    /\ UNCHANGED not_msg

\* generate_optimized_csv: if buffer: writer.writerows(buffer)
MsgOptimizedFinish ==
    /\ IsBuffered(msg_mode) /\ msg_pc = "loop"
    /\ msg_i >= msg_count
    /\ IF msg_buffer # <<>>
       THEN /\ msg_files' = [msg_files EXCEPT ![1] = @ \o msg_buffer]
            /\ msg_blocks' = Append(msg_blocks, Len(msg_buffer))
       ELSE UNCHANGED <<msg_files, msg_blocks>>
    /\ msg_pc' = "done"
    /\ UNCHANGED <<msg_headers, msg_generated, msg_mode, msg_count, msg_chat_arg, msg_per_file,
                   msg_total, msg_i, msg_in_file, msg_idx, msg_row, msg_buffer>>
    /\ UNCHANGED not_msg

\* a buffered run is stopped inside its loop (an exception such as
\* KeyboardInterrupt leaves the with block, which closes the file): what
\* was handed to the writer stays in the file, the buffer is dropped.
\* Here the run is stopped between two iterations.
MsgOptimizedStop ==
    /\ IsBuffered(msg_mode) /\ msg_pc = "loop"
    /\ msg_i < msg_count
    /\ msg_pc' = "stopped"
    /\ UNCHANGED <<msg_blocks, msg_headers, msg_generated, msg_mode, msg_count, msg_chat_arg,
                   msg_per_file, msg_total, msg_i, msg_in_file, msg_idx, msg_row, msg_buffer,
                   msg_files>>
    /\ UNCHANGED not_msg

\* the run is stopped inside an iteration, after buffer.append(row) and
\* before the test of len(buffer)
MsgOptimizedStopAfterAppend ==
    /\ IsBuffered(msg_mode) /\ msg_pc = "loop"
    /\ msg_i < msg_count
    /\ msg_idx' = msg_i
    /\ msg_row' \in WriterRow(msg_mode, msg_i, msg_chat_arg)
    /\ msg_generated' = Append(msg_generated, RowKey(msg_row', msg_i))
    /\ msg_buffer' = Append(msg_buffer, RowKey(msg_row', msg_i))
    /\ msg_pc' = "stopped"
    /\ UNCHANGED <<msg_blocks, msg_headers, msg_mode, msg_count, msg_chat_arg, msg_per_file,
                   msg_total, msg_i, msg_in_file, msg_files>>
    /\ UNCHANGED not_msg

\* the run is stopped inside an iteration, after writer.writerows(buffer)
\* and before buffer.clear()
MsgOptimizedStopAfterWrite ==
    /\ IsBuffered(msg_mode) /\ msg_pc = "loop"
    /\ msg_i < msg_count
    /\ msg_idx' = msg_i
    /\ msg_row' \in WriterRow(msg_mode, msg_i, msg_chat_arg)
    /\ msg_generated' = Append(msg_generated, RowKey(msg_row', msg_i))
    /\ LET buffer == Append(msg_buffer, RowKey(msg_row', msg_i))
       IN  /\ FlushDue(buffer)
           /\ msg_files' = [msg_files EXCEPT ![1] = @ \o buffer]
           /\ msg_blocks' = Append(msg_blocks, Len(buffer))
           /\ msg_buffer' = buffer
    /\ msg_pc' = "stopped"
    /\ UNCHANGED <<msg_headers, msg_mode, msg_count, msg_chat_arg, msg_per_file,
                   msg_total, msg_i, msg_in_file>>
    /\ UNCHANGED not_msg

\* generate_multiple_csv_files: while total_generated < count, a new file
\* is opened and its header written
MsgShardBegin ==
    /\ IsSharded(msg_mode) /\ msg_pc = "loop"
    /\ msg_total < msg_count
    /\ msg_in_file' = records_in_file(msg_per_file, msg_count, msg_total)
    /\ msg_files' = Append(msg_files, <<>>)
    /\ msg_headers' = Append(msg_headers, 1)
    /\ msg_i' = 0
    /\ msg_pc' = "file"
    /\ UNCHANGED <<msg_blocks, msg_generated, msg_mode, msg_count, msg_chat_arg, msg_per_file,
                   msg_total, msg_idx,
                   msg_row, msg_buffer>>
    /\ UNCHANGED not_msg

\* generate_multiple_csv_files: one iteration of for i in range(records_in_file)
MsgShardRow ==
    /\ IsSharded(msg_mode) /\ msg_pc = "file"
    /\ msg_i < msg_in_file
    /\ msg_idx' = ShardIndex(msg_total, msg_i)
    /\ msg_row' \in WriterRow(msg_mode, ShardIndex(msg_total, msg_i), msg_chat_arg)
    /\ msg_generated' =
          Append(msg_generated, RowKey(msg_row', ShardIndex(msg_total, msg_i)))
    /\ msg_files' = [msg_files EXCEPT ![Len(msg_files)] =
                         Append(@, RowKey(msg_row', ShardIndex(msg_total, msg_i)))]
    /\ msg_i' = msg_i + 1
    /\ UNCHANGED <<msg_blocks, msg_headers, msg_mode, msg_count, msg_chat_arg, msg_per_file,
                   msg_total, msg_in_file,
                   msg_buffer, msg_pc>>
    /\ UNCHANGED not_msg

\* generate_multiple_csv_files: the file is closed;
\* total_generated += records_in_file
MsgShardEnd ==
    /\ IsSharded(msg_mode) /\ msg_pc = "file"
    /\ msg_i >= msg_in_file
    /\ msg_total' = msg_total + msg_in_file
    /\ msg_pc' = "loop"
    /\ UNCHANGED <<msg_blocks, msg_headers, msg_generated, msg_mode, msg_count, msg_chat_arg,
                   msg_per_file, msg_i, msg_in_file,
                   msg_idx, msg_row, msg_buffer, msg_files>>
    /\ UNCHANGED not_msg

\* generate_multiple_csv_files: the while loop has ended
MsgShardsFinish ==
    /\ IsSharded(msg_mode) /\ msg_pc = "loop"
    /\ msg_total >= msg_count
    /\ msg_pc' = "done"
    /\ UNCHANGED <<msg_blocks, msg_headers, msg_generated, msg_mode, msg_count, msg_chat_arg,
                   msg_per_file, msg_total, msg_i,
                   msg_in_file, msg_idx, msg_row, msg_buffer, msg_files>>
    /\ UNCHANGED not_msg

\* convert_sql_to_csv: one iteration of for columns, values_str in inserts:
\* the statement is parsed and the values are written as one row
MsgConvertRow ==
    /\ msg_mode = "sql_to_csv" /\ msg_pc = "loop"
    /\ msg_i < Len(Inserts(msg_count))
    /\ LET parsed == Inserts(msg_count)[msg_i + 1]
       IN  /\ msg_generated' = Append(msg_generated, parsed)
           /\ msg_files' = [msg_files EXCEPT ![1] = Append(@, parsed)]
    /\ msg_total' = msg_total + 1
    /\ msg_i' = msg_i + 1
    /\ UNCHANGED <<msg_blocks, msg_headers, msg_mode, msg_count, msg_chat_arg, msg_per_file,
                   msg_in_file, msg_idx, msg_row, msg_buffer, msg_pc>>
    /\ UNCHANGED not_msg

\* convert_sql_to_csv: the loop has ended
MsgConvertFinish ==
    /\ msg_mode = "sql_to_csv" /\ msg_pc = "loop"
    /\ msg_i >= Len(Inserts(msg_count))
    /\ msg_pc' = "done"
    /\ UNCHANGED <<msg_blocks, msg_headers, msg_generated, msg_mode, msg_count, msg_chat_arg,
                   msg_per_file, msg_total, msg_i, msg_in_file, msg_idx, msg_row, msg_buffer,
                   msg_files>>
    /\ UNCHANGED not_msg

\* NoBatchMessageGenerator.generate_file: one iteration, the row written
\* as an INSERT statement
MsgInsertRow ==
    /\ msg_mode = "insert_file" /\ msg_pc = "loop"
    /\ msg_i < msg_count
    /\ msg_idx' = msg_i
    /\ msg_row' \in generate_message(msg_i, msg_chat_arg)
    /\ msg_generated' = Append(msg_generated, msg_row'.chat_msg_local_id)
    /\ msg_files' = [msg_files EXCEPT ![1] = Append(@, msg_row'.chat_msg_local_id)]
    /\ msg_total' = msg_total + 1
    /\ msg_i' = msg_i + 1
    /\ UNCHANGED <<msg_blocks, msg_headers, msg_mode, msg_count, msg_chat_arg, msg_per_file,
                   msg_in_file,
                   msg_buffer, msg_pc>>
    /\ UNCHANGED not_msg

\* NoBatchMessageGenerator.generate_file: the loop has ended
MsgInsertFinish ==
    /\ msg_mode = "insert_file" /\ msg_pc = "loop"
    /\ msg_i >= msg_count
    /\ msg_pc' = "done"
    /\ UNCHANGED <<msg_blocks, msg_headers, msg_generated, msg_mode, msg_count, msg_chat_arg,
                   msg_per_file, msg_total, msg_i,
                   msg_in_file, msg_idx, msg_row, msg_buffer, msg_files>>
    /\ UNCHANGED not_msg

\* ------------------------------------------------------------------------
\* The two paths of one Message to a CSV data line
\*   parser path:    NoBatchMessageGenerator.generate_insert_statement, then
\*                   DockerDSBulkLoader.convert_sql_to_csv
\*   generator path: CSVDsbulkGenerator.generate_message_row, written by
\*                   csv.DictWriter in generate_csv_file
\* A message keeps chat_msg_local_id, text, kludges, forwarded and
\* forwarded_message_ids; the other integer, string and list fields are
\* rendered like these.
\* ------------------------------------------------------------------------

\* characters of a message text
PathChars == {"a", ",", SQ, DQ, BS, ")", ";"}

PathTexts == SeqsUpTo(PathChars, MaxPathText)

\* values of generate_kludges(): "" (dsbulk_generate.py), "{}" (no_batch.py)
PathKludges == {<<>>, <<"{", "}">>}

\* values of generate_forwarded_message_ids(), as a list of ints
PathIdLists == {<<>>, <<7>>, <<7, 8>>}

PathMessages ==
    [chat_msg_local_id : {0, 1000}, text : PathTexts, kludges : PathKludges,
     forwarded : BOOLEAN, forwarded_message_ids : PathIdLists]

\* escape_sql_value of a str: value.replace("'", "''") between quotes
escape_sql_value(s) == <<SQ>> \o ReplaceChar(s, SQ, <<SQ, SQ>>) \o <<SQ>>

\* generate_insert_statement: the list fields, '[7, 8]' or '[]'
SqlList(xs) == ListToStr(xs)

\* generate_insert_statement: values_str, the fields joined by ', '
InsertValues(m) ==
    Join(<<IntToStr(m.chat_msg_local_id),
           escape_sql_value(m.text),
           escape_sql_value(m.kludges),
           BoolToStr(m.forwarded),
           SqlList(m.forwarded_message_ids)>>, <<",", SP>>)

\* the text a non-greedy (.*?) followed by \); captures from s: s up to
\* its first ");" (s is followed by the ");" of the statement)
RECURSIVE UpToClose(_)
UpToClose(s) ==
    IF Len(s) < 2 THEN s
    ELSE IF s[1] = ")" /\ s[2] = ";" THEN <<>>
    ELSE <<s[1]>> \o UpToClose(Tail(s))

\* csv.writer with QUOTE_MINIMAL: one field
CsvWriterField(s) == IF HasSpecial(s) THEN QuoteCsv(s) ELSE s

\* csv.writer.writerow: the fields joined by ','
CsvWriterRow(fields) ==
    Join([k \in 1..Len(fields) |-> CsvWriterField(fields[k])], <<",">>)

\* CSVDsbulkGenerator.generate_forwarded_message_ids: '[' + ','.join(ids) + ']'
CsvList(xs) ==
    <<"[">> \o Join([k \in 1..Len(xs) |-> IntToStr(xs[k])], <<",">>) \o <<"]">>

\* the row dict returned by generate_message_row, as the fields handed to
\* the DictWriter
GeneratorRowFields(m) ==
    <<IntToStr(m.chat_msg_local_id),
      escape_csv_value(PyStr(m.text)),
      escape_csv_value(PyStr(m.kludges)),
      Lower(BoolToStr(m.forwarded)),
      CsvList(m.forwarded_message_ids)>>

PathIdle ==
    /\ path_msg = [none |-> TRUE] /\ path_pc = "idle" /\ path_sql_line = <<>>
    /\ path_gen_pc = "idle" /\ path_gen_line = <<>>

\* one message is given to both paths; the parser has not been called yet
InitPath ==
    /\ path_msg \in PathMessages
    /\ path_pc = "insert" /\ path_sql_line = <<>>
    /\ path_gen_pc = "row" /\ path_gen_line = <<>>
    /\ src_text = <<>> /\ values_str = <<>> /\ scan_i = 0 /\ current = <<>>
    /\ in_quotes = FALSE /\ in_list = FALSE /\ escape_next = FALSE
    /\ values = <<>> /\ scan_pc = "wait" /\ scan_rule = "none" /\ seps = 0
    /\ warned = FALSE

\* generate_insert_statement writes the statement; convert_sql_to_csv finds
\* it with the pattern and calls parse_sql_values on the captured values
PathInsert ==
    /\ path_pc = "insert"
    /\ src_text' = UpToClose(InsertValues(path_msg))
    /\ scan_pc' = "start"
    /\ path_pc' = "convert"
    /\ UNCHANGED <<values_str, scan_i, current, in_quotes, in_list, escape_next, values,
                   scan_rule, seps, warned>>
    /\ UNCHANGED <<path_msg, path_sql_line, path_gen_pc, path_gen_line>>
    /\ UNCHANGED not_path

\* convert_sql_to_csv: writer.writerow(values)
PathConvertWrite ==
    /\ path_pc = "convert"
    /\ scan_pc = "done"
    /\ path_sql_line' = CsvWriterRow(values)
    /\ path_pc' = "done"
    /\ UNCHANGED parse_vars
    /\ UNCHANGED <<path_msg, path_gen_pc, path_gen_line>>
    /\ UNCHANGED not_path

\* generate_csv_file: row = generate_message_row(...); writer.writerow(row)
PathGeneratorWrite ==
    /\ path_gen_pc = "row"
    /\ path_gen_line' = CsvWriterRow(GeneratorRowFields(path_msg))
    /\ path_gen_pc' = "done"
    /\ UNCHANGED parse_vars
    /\ UNCHANGED <<path_msg, path_pc, path_sql_line>>
    /\ UNCHANGED not_path

\* ------------------------------------------------------------------------
\* Two runs of one generator with the same seed and the same count
\* random.seed(seed) fixes the values the random module returns, in call
\* order: det_stream holds them as far as a run has drawn them, and the
\* other run draws the same ones.  datetime.now() and uuid.uuid4() do not
\* come from the seed: each call returns any value.
\*   "peerids":  generate_peerids_csv; a row keeps user_id, chat_id and
\*               invite_timestamp, the later fields are further seeded draws
\*   "messages": NoBatchMessageGenerator.generate_kludges (the same code is
\*               in generate.py); a row keeps the kludges of a message
\* ------------------------------------------------------------------------

\* values one call of the seeded random module returns
DrawValues == {0, 1}

\* int(datetime.now().timestamp())
Clocks == {1700000000, 1700000001}

\* str(uuid.uuid4())
Uuids == {"uuid_a", "uuid_b"}

DetRuns == {1, 2}

\* most seeded draws of one row
MaxDraws == 7

\* random.choice(seq) for the drawn value d
Choice(seq, d) == seq[1 + ((4 * d) % Len(seq))]

\* the stream so far agrees with the draws ds[1..n] made from position pos
Replays(pos, ds, n) ==
    \A k \in 1..n : pos + k <= Len(det_stream) => det_stream[pos + k] = ds[k]

\* the stream after the draws ds[1..n] made from position pos
Drawn(pos, ds, n) ==
    IF pos + n <= Len(det_stream) THEN det_stream
    ELSE SubSeq(det_stream, 1, pos) \o SubSeq(ds, 1, n)

\* CassandraDataGenerator.generate_timestamp with the draws of days_ago,
\* hours, minutes, seconds
generate_timestamp(now, days_ago, hours, minutes, seconds) ==
    now - days_ago * 86400 - (hours * 3600 + minutes * 60 + seconds)

kludge_types == <<"photo", "video", "document", "audio", "voice", "sticker">>

\* generate_kludges: the draws it consumes, given the draws ds
KludgeDraws(ds) ==
    IF ds[1] # 0 THEN 1
    ELSE LET media_type == Choice(kludge_types, ds[2])
         IN  4 + (IF media_type \in {"photo", "video"} THEN 2 ELSE 0)
               + (IF media_type \in {"video", "audio", "voice"} THEN 1 ELSE 0)

\* generate_kludges: "{}" unless random.random() < 0.3 (the draw 0), else
\* the dict that json.dumps renders
generate_kludges(ds, uuid) ==
    IF ds[1] # 0 THEN [empty |-> TRUE]
    ELSE LET media_type == Choice(kludge_types, ds[2])
             wh == media_type \in {"photo", "video"}
             dur == media_type \in {"video", "audio", "voice"}
         IN  [type |-> media_type,
              id |-> uuid,
              size |-> 1024 + ds[3],
              url |-> ds[4],
              width |-> IF wh THEN Choice(<<1280, 1920, 2560>>, ds[5]) ELSE None,
              height |-> IF wh THEN Choice(<<720, 1080, 1440>>, ds[6]) ELSE None,
              duration |-> IF dur THEN 1 + ds[IF wh THEN 7 ELSE 5] ELSE None]

DetIdle ==
    /\ det_mode = "none" /\ det_count = 0 /\ det_stream = <<>>
    /\ det_pos = <<0, 0>> /\ det_out = << <<>>, <<>> >>

\* __init__: random.seed(seed), in both runs
InitDet ==
    /\ det_mode \in {"peerids", "messages"}
    /\ det_count \in 0..MaxDetRows
    /\ det_stream = <<>>
    /\ det_pos = <<0, 0>> /\ det_out = << <<>>, <<>> >>

\* generate_peerids_csv, one iteration of the loop in one of the runs
DetPeerRow ==
    /\ det_mode = "peerids"
    /\ \E r \in DetRuns, ds \in [1..6 -> DrawValues], now \in Clocks :
        /\ Len(det_out[r]) < det_count
        /\ Replays(det_pos[r], ds, 6)
        /\ det_stream' = Drawn(det_pos[r], ds, 6)
        /\ det_pos' = [det_pos EXCEPT ![r] = @ + 6]
        /\ det_out' = [det_out EXCEPT ![r] =
              Append(@, [user_id |-> Choice(<<1000, 1001>>, ds[1]),
                         chat_id |-> Choice(<<1000, 1001>>, ds[2]),
                         invite_timestamp |->
                             generate_timestamp(now, ds[3], ds[4], ds[5], ds[6])])]
    /\ UNCHANGED <<det_mode, det_count>>
    /\ UNCHANGED not_det

\* NoBatchMessageGenerator.generate_message, its generate_kludges call, in
\* one of the runs
DetMessageRow ==
    /\ det_mode = "messages"
    /\ \E r \in DetRuns, ds \in [1..MaxDraws -> DrawValues], uuid \in Uuids :
        LET n == KludgeDraws(ds)
        IN  /\ Len(det_out[r]) < det_count
            /\ Replays(det_pos[r], ds, n)
            /\ det_stream' = Drawn(det_pos[r], ds, n)
            /\ det_pos' = [det_pos EXCEPT ![r] = @ + n]
            /\ det_out' = [det_out EXCEPT ![r] = Append(@, generate_kludges(ds, uuid))]
    /\ UNCHANGED <<det_mode, det_count>>
    /\ UNCHANGED not_det

\* ------------------------------------------------------------------------
\* docker_dsbulk_loader.py: convert_sql_to_csv over a file of several INSERT
\* statements, each value-tuple parsed by parse_sql_values (the scan above)
\* ------------------------------------------------------------------------

\* a value-tuple text of n values: 'a,a,...,a'
ArityText(n) == Join([k \in 1..n |-> <<"a">>], <<",">>)

\* a value-tuple of three values that takes the scan through its quote,
\* list and backslash branches: a quoted a followed by a doubled quote,
\* the list [a], and an a after a backslash
MixedText == <<SQ, "a", SQ, SQ, SQ, ",", "[", "a", "]", ",", BS, "a">>

\* the value-tuples a statement can hold: none, fewer than 15, 15, more
ArityTexts == {ArityText(n) : n \in {0, 1, 14, 15, 16}} \cup {MixedText}

ConvIdle ==
    /\ conv_inserts = <<>> /\ conv_processed = 0 /\ conv_rows = <<>>
    /\ conv_warnings = 0 /\ conv_returned = None /\ conv_pc = "idle"

\* inserts = re.findall(pattern, content, ...); the header row is written;
\* processed = 0
InitConv ==
    /\ conv_inserts \in SeqsUpTo(ArityTexts, MaxInserts)
    /\ conv_processed = 0 /\ conv_rows = <<>>
    /\ conv_warnings = 0 /\ conv_returned = None /\ conv_pc = "loop"
    /\ src_text = <<>> /\ values_str = <<>> /\ scan_i = 0 /\ current = <<>>
    /\ in_quotes = FALSE /\ in_list = FALSE /\ escape_next = FALSE
    /\ values = <<>> /\ scan_pc = "wait" /\ scan_rule = "none" /\ seps = 0
    /\ warned = FALSE

\* for columns, values_str in inserts: values = self.parse_sql_values(values_str)
\* the call, with the locals of parse_sql_values set as its first lines do
ConvParse ==
    /\ conv_pc = "loop"
    /\ conv_processed < Len(conv_inserts)
    /\ src_text' = conv_inserts[conv_processed + 1]
    /\ values_str' = <<>> /\ scan_i' = 0 /\ current' = <<>>
    /\ in_quotes' = FALSE /\ in_list' = FALSE /\ escape_next' = FALSE
    /\ values' = <<>> /\ scan_pc' = "start" /\ scan_rule' = "none" /\ seps' = 0
    /\ warned' = FALSE
    /\ conv_pc' = "parse"
    /\ UNCHANGED <<conv_inserts, conv_processed, conv_rows, conv_warnings, conv_returned>>
    /\ UNCHANGED not_conv

\* faulty variant of ConvWriteRow: a row that drew the arity warning is
\* not written
ConvWriteRow_drops_mismatch ==
    /\ conv_pc = "parse"
    /\ scan_pc = "done"
    /\ conv_rows' = IF warned THEN conv_rows ELSE Append(conv_rows, values)
    /\ conv_warnings' = conv_warnings + (IF warned THEN 1 ELSE 0)
    /\ conv_processed' = conv_processed + 1
    /\ conv_pc' = "loop"
    /\ UNCHANGED parse_vars
    /\ UNCHANGED <<conv_inserts, conv_returned>>
    /\ UNCHANGED not_conv

\* parse_sql_values has returned: writer.writerow(values); processed += 1
ConvWriteRow ==
    /\ conv_pc = "parse"
    /\ scan_pc = "done"
    /\ conv_rows' = Append(conv_rows, values)
    /\ conv_warnings' = conv_warnings + (IF warned THEN 1 ELSE 0)
    /\ conv_processed' = conv_processed + 1
    /\ conv_pc' = "loop"
    /\ UNCHANGED parse_vars
    /\ UNCHANGED <<conv_inserts, conv_returned>>
    /\ UNCHANGED not_conv

\* the loop has ended: return len(inserts)
ConvReturn ==
    /\ conv_pc = "loop"
    /\ conv_processed >= Len(conv_inserts)
    /\ conv_returned' = Len(conv_inserts)
    /\ conv_pc' = "done"
    /\ UNCHANGED parse_vars
    /\ UNCHANGED <<conv_inserts, conv_processed, conv_rows, conv_warnings>>
    /\ UNCHANGED not_conv

\* ------------------------------------------------------------------------
\* Generator instances of one process.  Every constructor
\* (UserToMessageCSVGenerator, CSVDsbulkGenerator, CassandraDataGenerator)
\* calls random.seed(seed) on the random module, and every row generator
\* draws with random.random(), random.randint() and random.choice() from
\* that module: the module's state is one per process.  A value the module
\* returns is kept as the pair of the seed and its position in the stream
\* of that seed; a row is kept by the first value drawn for it.
\* ------------------------------------------------------------------------

Insts == {"first", "second"}

\* seed arguments; 42 is the default
Seeds == {42, 7}

\* the value the random module returns at position pos after random.seed(seed)
Rand(seed, pos) == <<seed, pos>>

InstIdle ==
    /\ rng_seed = None /\ rng_pos = 0
    /\ inst_seed = [i \in Insts |-> None]
    /\ inst_rows = [i \in Insts |-> <<>>]

\* the process has imported the modules; no generator exists yet
InitInst == InstIdle

\* __init__(self, seed): random.seed(seed)
InstConstruct ==
    \E i \in Insts, seed \in Seeds :
        /\ inst_seed[i] = None
        /\ inst_seed' = [inst_seed EXCEPT ![i] = seed]
        /\ rng_seed' = seed
        /\ rng_pos' = 0
        /\ UNCHANGED inst_rows
        /\ UNCHANGED not_inst

\* one call of the instance's row generator: the row is drawn from the
\* random module
InstGenerateRow ==
    \E i \in Insts :
        /\ inst_seed[i] # None
        /\ Len(inst_rows[i]) < MaxInstRows
        /\ inst_rows' = [inst_rows EXCEPT ![i] = Append(@, Rand(rng_seed, rng_pos + 1))]
        /\ rng_pos' = rng_pos + 1
        /\ UNCHANGED <<rng_seed, inst_seed>>
        /\ UNCHANGED not_inst

\* ------------------------------------------------------------------------
\* Specifications, one per component
\* ------------------------------------------------------------------------

InitSpecParse == InitParse /\ CleanIdle /\ EscapeIdle /\ U2MIdle /\ PeerIdle /\ MsgIdle /\ PathIdle /\ DetIdle
        /\ ConvIdle
        /\ InstIdle

NextParse ==
    \/ ParseBegin
    \/ ScanEscaped
    \/ ScanBackslash
    \/ ScanOpenQuote
    \/ ScanDoubledQuote
    \/ ScanCloseQuote
    \/ ScanOpenBracket
    \/ ScanCloseBracket
    \/ ScanComma
    \/ ScanOther
    \/ ScanFinish

SpecParse == InitSpecParse /\ [][NextParse]_vars

InitSpecClean == InitClean /\ ParseIdle /\ EscapeIdle /\ U2MIdle /\ PeerIdle /\ MsgIdle /\ PathIdle /\ DetIdle
        /\ ConvIdle
        /\ InstIdle

NextClean == CleanValueCall

SpecClean == InitSpecClean /\ [][NextClean]_vars

InitSpecEscape == InitEscape /\ ParseIdle /\ CleanIdle /\ U2MIdle /\ PeerIdle /\ MsgIdle /\ PathIdle /\ DetIdle
        /\ ConvIdle
        /\ InstIdle

NextEscape ==
    \/ EscapeCall
    \/ EscapeCallU2M
    \/ EscapeCallPeer

SpecEscape == InitSpecEscape /\ [][NextEscape]_vars

InitSpecU2M == InitU2M /\ ParseIdle /\ CleanIdle /\ EscapeIdle /\ PeerIdle /\ MsgIdle /\ PathIdle /\ DetIdle
        /\ ConvIdle
        /\ InstIdle

NextU2M ==
    \/ GenerateRecordRowPinned
    \/ GenerateRecordRowRandom
    \/ GenerateRecordRowSearching

SpecU2M == InitSpecU2M /\ [][NextU2M]_vars

InitSpecPeer == InitPeer /\ ParseIdle /\ CleanIdle /\ EscapeIdle /\ U2MIdle /\ MsgIdle /\ PathIdle /\ DetIdle
        /\ ConvIdle
        /\ InstIdle

NextPeer ==
    \/ PeerCsvRow
    \/ PeerCsvFinish
    \/ PeerOptChat
    \/ PeerOptRow
    \/ PeerOptChatEnd
    \/ PeerOptFinish

SpecPeer == InitSpecPeer /\ [][NextPeer]_vars

InitSpecMsg == InitMsg /\ ParseIdle /\ CleanIdle /\ EscapeIdle /\ U2MIdle /\ PeerIdle /\ PathIdle /\ DetIdle
        /\ ConvIdle
        /\ InstIdle

NextMsg ==
    \/ MsgCsvFileRow
    \/ MsgCsvFileFinish
    \/ MsgOptimizedRow
    \/ MsgOptimizedFinish
    \/ MsgOptimizedStop
    \/ MsgOptimizedStopAfterAppend
    \/ MsgOptimizedStopAfterWrite
    \/ MsgShardBegin
    \/ MsgShardRow
    \/ MsgShardEnd
    \/ MsgShardsFinish
    \/ MsgInsertRow
    \/ MsgInsertFinish
    \/ MsgConvertRow
    \/ MsgConvertFinish

SpecMsg == InitSpecMsg /\ [][NextMsg]_vars

InitSpecPath ==
    InitPath /\ CleanIdle /\ EscapeIdle /\ U2MIdle /\ PeerIdle /\ MsgIdle /\ DetIdle
        /\ ConvIdle
        /\ InstIdle

NextPath ==
    \/ PathInsert
    \/ ParseBegin
    \/ ScanEscaped
    \/ ScanBackslash
    \/ ScanOpenQuote
    \/ ScanDoubledQuote
    \/ ScanCloseQuote
    \/ ScanOpenBracket
    \/ ScanCloseBracket
    \/ ScanComma
    \/ ScanOther
    \/ ScanFinish
    \/ PathConvertWrite
    \/ PathGeneratorWrite

SpecPath == InitSpecPath /\ [][NextPath]_vars

InitSpecDet ==
    InitDet /\ ParseIdle /\ CleanIdle /\ EscapeIdle /\ U2MIdle /\ PeerIdle /\ MsgIdle
        /\ PathIdle
        /\ ConvIdle
        /\ InstIdle

NextDet ==
    \/ DetPeerRow
    \/ DetMessageRow

SpecDet == InitSpecDet /\ [][NextDet]_vars

InitSpecConv ==
    InitConv /\ CleanIdle /\ EscapeIdle /\ U2MIdle /\ PeerIdle /\ MsgIdle /\ PathIdle
        /\ DetIdle
        /\ InstIdle

NextConv ==
    \/ ConvParse
    \/ ParseBegin
    \/ ScanEscaped
    \/ ScanBackslash
    \/ ScanOpenQuote
    \/ ScanDoubledQuote
    \/ ScanCloseQuote
    \/ ScanOpenBracket
    \/ ScanCloseBracket
    \/ ScanComma
    \/ ScanOther
    \/ ScanFinish
    \/ ConvWriteRow
    \/ ConvReturn

SpecConv == InitSpecConv /\ [][NextConv]_vars

InitSpecInst ==
    InitInst /\ ParseIdle /\ CleanIdle /\ EscapeIdle /\ U2MIdle /\ PeerIdle /\ MsgIdle
        /\ PathIdle /\ DetIdle /\ ConvIdle

NextInst ==
    \/ InstConstruct
    \/ InstGenerateRow

SpecInst == InitSpecInst /\ [][NextInst]_vars

\* ------------------------------------------------------------------------
\* Properties
\* ------------------------------------------------------------------------

AllPairs == Users \X Peers

\* C1: for every (user_id, peer_id) pair, the chat_local_id values of its
\* rows, in emission order, are 1, 2, ..., n, whatever mix of pinned and
\* random calls produced them.
C1_ChatLocalIdsSequential ==
    \A k \in AllPairs : \A n \in 1..Len(u2m_emitted[k]) : u2m_emitted[k][n] = n

\* a pair has three rows after both kinds of call were made, the last one pinned
C1_Witness ==
    /\ u2m_kinds = {"pinned", "random"}
    /\ u2m_args[1] # None /\ u2m_args[2] # None
    /\ Len(u2m_emitted[u2m_args]) >= 3
    /\ \E k \in AllPairs : k # u2m_args /\ Len(u2m_emitted[k]) >= 2

\* C2: no row is emitted with a chat_local_id above the per-pair cap, for
\* random and for pinned calls.
C2_NoRowAboveCap ==
    \A k \in AllPairs : \A n \in 1..Len(u2m_emitted[k]) : u2m_emitted[k][n] <= MaxPerPair

PeerPair(row) == <<row.user_id, row.last_message_ts>>

\* C3: in generate_peerids_csv, a row whose retry loop ended with fewer
\* than 10 attempts has a (user_id, last_message_ts) pair that was not in
\* used_pairs and that no earlier written row has; the timestamp written
\* in a row is the one added to used_pairs.
C3_CsvPairsUnique ==
    (peer_mode = "csv" /\ peer_written # <<>>) =>
        LET n == Len(peer_written)
            last == peer_written[n]
        IN  /\ peer_attempts < MaxAttempts =>
                /\ peer_fresh
                /\ \A i \in 1..(n - 1) : PeerPair(peer_written[i]) # PeerPair(last)
            /\ used_pairs = {PeerPair(peer_written[i]) : i \in 1..n}

\* a collision was met and resolved by perturbing the timestamp
C3_Witness ==
    /\ peer_mode = "csv"
    /\ peer_attempts > 0 /\ peer_attempts < MaxAttempts
    /\ Len(peer_written) >= 2
    /\ \E i \in 1..(Len(peer_written) - 1) :
          /\ peer_written[i].user_id = peer_written[Len(peer_written)].user_id
          /\ peer_written[i].last_message_ts < peer_written[Len(peer_written)].last_message_ts

\* C4: rows written by generate_optimized_peerids never share a
\* (user_id, last_message_ts) pair.
C4_OptimizedPairsUnique ==
    peer_mode = "optimized" =>
        \A i, j \in 1..Len(peer_written) :
            i < j => PeerPair(peer_written[i]) # PeerPair(peer_written[j])

\* C5: in every output mode the row's chat_msg_local_id is the index passed
\* to the row generator and bucket is its floor division by 1000.
C5_BucketIsFloorDiv ==
    msg_row # NoRow =>
        /\ msg_idx >= 0
        /\ msg_row.chat_msg_local_id = msg_idx
        /\ msg_row.bucket * 1000 <= msg_idx
        /\ msg_idx < (msg_row.bucket + 1) * 1000

\* a sharded run generates the row of index 1000, the first of bucket 1
C5_Witness ==
    /\ msg_mode = "multiple_csv"
    /\ msg_row # NoRow
    /\ msg_idx = 1000
    /\ msg_row.bucket = 1

\* C6 as claimed: every quote character met by the scan: inside a quoted
\* string, followed by another quote, it appends one quote, stays in the
\* quoted string and consumes both; inside a quoted string otherwise it
\* leaves the quoted string and appends nothing; outside a quoted string
\* it enters one and appends nothing.
C6_QuoteRulesAsClaimed ==
    [][(Scanning /\ Char = SQ) =>
          IF in_quotes
          THEN IF NextIsQuote
               THEN current' = Append(current, SQ) /\ in_quotes' /\ scan_i' = scan_i + 2
               ELSE current' = current /\ ~in_quotes' /\ scan_i' = scan_i + 1
          ELSE current' = current /\ in_quotes' /\ scan_i' = scan_i + 1]_vars

\* C6 amended: the same for a quote character that reaches the quote rule,
\* that is when no escape is pending; a quote that follows a backslash is
\* appended as it is and changes no state (the escape rule comes first).
C6_QuoteRules ==
    [][(Scanning /\ Char = SQ) =>
          IF escape_next
          THEN /\ current' = Append(current, SQ)
               /\ in_quotes' = in_quotes
               /\ ~escape_next'
               /\ scan_i' = scan_i + 1
          ELSE IF in_quotes
          THEN IF NextIsQuote
               THEN current' = Append(current, SQ) /\ in_quotes' /\ scan_i' = scan_i + 2
               ELSE current' = current /\ ~in_quotes' /\ scan_i' = scan_i + 1
          ELSE current' = current /\ in_quotes' /\ scan_i' = scan_i + 1]_vars

\* a doubled quote was collapsed inside a quoted string that stays open
C6_Witness ==
    /\ scan_rule = "doubled_quote"
    /\ in_quotes
    /\ current = <<SQ>>
    /\ scan_i = 3

\* C7: parse_sql_values returns exactly k + 1 values, k being the number of
\* commas that separated values; the token pending at end of input is
\* always emitted, also when it is empty.
C7_ValuesAreSeparatorsPlusOne ==
    scan_pc = "done" => Len(values) = seps + 1

\* C8: while a bracketed list is open, every scanned character is appended
\* to the current token as it is and ends no value.
C8_ListCapturedVerbatim ==
    [][(Scanning /\ in_list) =>
          (current' = Append(current, Char) /\ values' = values /\ scan_i' = scan_i + 1)]_vars

BracketWrapped(s) == StartsWith(s, "[") /\ EndsWith(s, "]")

IsKeyword(s) == Upper(s) \in {TRUE_TOKEN, FALSE_TOKEN, NULL_TOKEN}

\* C9 as claimed: TRUE/FALSE in any case give true/false, NULL in any case
\* and the empty token give the empty value, a bracket-wrapped token and
\* every other token are returned unchanged.
C9_CleanValueAsClaimed ==
    cv_pc = "done" =>
        /\ cv_in \in CaseVariants(TRUE_TOKEN) => cv_out = true_text
        /\ cv_in \in CaseVariants(FALSE_TOKEN) => cv_out = false_text
        /\ (cv_in \in CaseVariants(NULL_TOKEN) \/ cv_in = <<>>) => cv_out = <<>>
        /\ BracketWrapped(cv_in) => cv_out = cv_in
        /\ (cv_in # <<>> /\ ~IsKeyword(cv_in)) => cv_out = cv_in

\* C9 amended: as claimed, except that a token that starts and ends with a
\* single quote loses these two quotes and has its doubled quotes
\* collapsed; every other token is returned unchanged.
C9_CleanValue ==
    cv_pc = "done" =>
        /\ cv_in \in CaseVariants(TRUE_TOKEN) => cv_out = true_text
        /\ cv_in \in CaseVariants(FALSE_TOKEN) => cv_out = false_text
        /\ (cv_in \in CaseVariants(NULL_TOKEN) \/ cv_in = <<>>) => cv_out = <<>>
        /\ BracketWrapped(cv_in) => cv_out = cv_in
        /\ (cv_in # <<>> /\ ~IsKeyword(cv_in) /\ StartsWith(cv_in, SQ) /\ EndsWith(cv_in, SQ)) =>
               cv_out = UndoubleSQ(SubSeq(cv_in, 2, Len(cv_in) - 1))
        /\ (cv_in # <<>> /\ ~IsKeyword(cv_in) /\ ~(StartsWith(cv_in, SQ) /\ EndsWith(cv_in, SQ))) =>
               cv_out = cv_in

\* a mixed-case keyword was normalised
C9_Witness ==
    /\ cv_pc = "done"
    /\ cv_in = <<"T", "r", "u", "e">>
    /\ cv_out = true_text

DigitValue(c) ==
    CASE c = "0" -> 0 [] c = "1" -> 1 [] c = "2" -> 2 [] c = "3" -> 3 [] c = "4" -> 4
      [] c = "5" -> 5 [] c = "6" -> 6 [] c = "7" -> 7 [] c = "8" -> 8 [] c = "9" -> 9

Digits == {"0", "1", "2", "3", "4", "5", "6", "7", "8", "9"}

RECURSIVE DecimalValue(_)
DecimalValue(s) ==
    IF Len(s) = 1 THEN DigitValue(s[1])
    ELSE DecimalValue(SubSeq(s, 1, Len(s) - 1)) * 10 + DigitValue(s[Len(s)])

\* s is the decimal text of the natural number n, without leading zeros
IsDecimalOfNat(s, n) ==
    /\ Len(s) >= 1
    /\ \A k \in 1..Len(s) : s[k] \in Digits
    /\ (Len(s) > 1 => s[1] # "0")
    /\ DecimalValue(s) = n

\* s is the decimal text of the integer n
IsDecimalOf(s, n) ==
    IF n < 0
    THEN Len(s) >= 2 /\ s[1] = "-" /\ IsDecimalOfNat(Tail(s), 0 - n)
    ELSE IsDecimalOfNat(s, n)

\* s wrapped in double quotes, every inner double quote doubled
WrappedAndDoubled(s) == <<DQ>> \o ReplaceChar(s, DQ, <<DQ, DQ>>) \o <<DQ>>

\* C10 as claimed: None gives the empty field, a boolean true/false, an
\* integer its decimal text; a string that begins with '{' and ends with
\* '}' is wrapped and doubled, any other string with a comma, a newline or
\* a double quote is wrapped and doubled, any other string is unchanged.
C10_EscapeAsClaimed ==
    esc_pc = "done" =>
        /\ esc_in.type = "none" => esc_out = <<>>
        /\ esc_in.type = "bool" => esc_out = (IF esc_in.v THEN true_text ELSE false_text)
        /\ esc_in.type = "int" => IsDecimalOf(esc_out, esc_in.v)
        /\ esc_in.type = "str" =>
              IF StartsWith(esc_in.v, "{") /\ EndsWith(esc_in.v, "}")
              THEN esc_out = WrappedAndDoubled(esc_in.v)
              ELSE IF HasSpecial(esc_in.v)
                   THEN esc_out = WrappedAndDoubled(esc_in.v)
                   ELSE esc_out = esc_in.v

\* C10 amended: the JSON shape is tested on the string with its leading and
\* trailing whitespace removed, so a string that is '{' ... '}' between
\* surrounding spaces is wrapped and doubled too.
C10_EscapeCsvValue ==
    esc_pc = "done" =>
        /\ esc_in.type = "none" => esc_out = <<>>
        /\ esc_in.type = "bool" => esc_out = (IF esc_in.v THEN true_text ELSE false_text)
        /\ esc_in.type = "int" => IsDecimalOf(esc_out, esc_in.v)
        /\ esc_in.type = "str" =>
              IF StartsWith(Strip(esc_in.v), "{") /\ EndsWith(Strip(esc_in.v), "}")
              THEN esc_out = WrappedAndDoubled(esc_in.v)
              ELSE IF HasSpecial(esc_in.v)
                   THEN esc_out = WrappedAndDoubled(esc_in.v)
                   ELSE esc_out = esc_in.v

\* a JSON-shaped string without comma, newline or quote was wrapped
C10_Witness ==
    /\ esc_pc = "done"
    /\ esc_in.type = "str"
    /\ esc_in.v = <<"{", "a", "}">>
    /\ esc_out = <<DQ, "{", "a", "}", DQ>>

\* C11: the three escape_csv_value implementations return the same text
\* for the same input value.
C11_EncodersAgree ==
    (esc_pc = "done" /\ esc_u2m_pc = "done" /\ esc_peer_pc = "done") =>
        (esc_out = esc_u2m_out /\ esc_out = esc_peer_out)

\* C12: for the same message values the data line of the parser path is,
\* character for character, the data line of the generator path.
C12_PathsAgree ==
    (path_pc = "done" /\ path_gen_pc = "done") => path_sql_line = path_gen_line

\* reading a CSV field back: the surrounding double quotes are removed
\* and the doubled inner quotes undoubled
RECURSIVE UndoubleDQ(_)
UndoubleDQ(s) ==
    IF Len(s) < 2 THEN s
    ELSE IF s[1] = DQ /\ s[2] = DQ
         THEN <<DQ>> \o UndoubleDQ(SubSeq(s, 3, Len(s)))
         ELSE <<s[1]>> \o UndoubleDQ(Tail(s))

CsvFieldText(f) ==
    IF Len(f) >= 2 /\ f[1] = DQ /\ f[Len(f)] = DQ
    THEN UndoubleDQ(SubSeq(f, 2, Len(f) - 1))
    ELSE f

\* the field read back as a value of the given type
ReadBackAs(type, f, v) ==
    CASE type = "int" -> IsDecimalOf(CsvFieldText(f), v)
      [] type = "bool" -> CsvFieldText(f) = (IF v THEN true_text ELSE false_text)
      [] type = "str" -> CsvFieldText(f) = v

IsScalar(value) == value.type \in {"int", "bool", "str"}

\* C13 as claimed: the field produced for a scalar value gives back that
\* value, type and content: it reads back as the value, and no scalar
\* value of another type or content produces the same field.
C13_RoundTripAsClaimed ==
    (esc_pc = "done" /\ IsScalar(esc_in)) =>
        /\ ReadBackAs(esc_in.type, esc_out, esc_in.v)
        /\ \A w \in {x \in EscValues : IsScalar(x)} :
               escape_csv_value(w) = esc_out => w = esc_in

\* C13 amended: read back as a value of the type of its column, the field
\* produced for a scalar value gives back the content of that value.
C13_RoundTrip ==
    (esc_pc = "done" /\ IsScalar(esc_in)) =>
        ReadBackAs(esc_in.type, esc_out, esc_in.v)

\* a string of two double quotes was wrapped, doubled and read back
C13_Witness ==
    /\ esc_pc = "done"
    /\ esc_in = PyStr(<<DQ, DQ>>)
    /\ esc_out = <<DQ, DQ, DQ, DQ, DQ, DQ>>
    /\ CsvFieldText(esc_out) = <<DQ, DQ>>

\* C14: two runs with the same seed and the same count write the same
\* rows.
C14_SameSeedSameOutput ==
    (Len(det_out[1]) = det_count /\ Len(det_out[2]) = det_count) => det_out[1] = det_out[2]

\* the block writes the claim gives for n rows: n \div 1000 blocks of 1000
\* rows, then one of n % 1000 rows when that is not zero
BlocksOf(n) ==
    [k \in 1..((n + 999) \div 1000) |-> IF k <= n \div 1000 THEN 1000 ELSE n % 1000]

\* C15: in the buffered writers the buffer never holds more than 1000 rows
\* (between two iterations it holds fewer than 1000, inside an iteration at
\* most 1000), no empty block is ever written, and when the
\* writer has finished N rows the block writes are floor(N/1000) blocks of
\* 1000 rows followed by one of N mod 1000 rows when that is not zero.
C15_BufferedBlocks ==
    IsBuffered(msg_mode) =>
        /\ Len(msg_buffer) <= 1000
        /\ msg_pc = "loop" => Len(msg_buffer) < 1000
        /\ \A k \in 1..Len(msg_blocks) : msg_blocks[k] > 0
        /\ msg_pc = "done" => msg_blocks = BlocksOf(msg_count)

\* a buffered run of 2001 rows has written blocks of 1000, 1000 and 1 rows
C15_Witness ==
    /\ msg_mode = "optimized_csv" /\ msg_pc = "done"
    /\ msg_count = 2001
    /\ msg_blocks = <<1000, 1000, 1>>

RECURSIVE SumOfLens(_)
\* the number of data rows of a sequence of files
SumOfLens(files) ==
    IF files = <<>> THEN 0 ELSE Len(Head(files)) + SumOfLens(Tail(files))

RECURSIVE Flatten(_)
\* the data rows of a sequence of files, in order of file then position
Flatten(files) ==
    IF files = <<>> THEN <<>> ELSE Head(files) \o Flatten(Tail(files))

\* C17: in every output mode the rows written so far are the first of
\* the rows generated or parsed so far, in the same order; between two
\* iterations the remaining ones are the rows waiting in the buffer; and
\* when the writer has finished the rows written are exactly the count
\* rows generated or parsed: none dropped, none twice.
C17_RowsWrittenInOrder ==
    msg_mode # "none" =>
        /\ Flatten(msg_files) = SubSeq(msg_generated, 1, Len(Flatten(msg_files)))
        /\ msg_pc \in {"loop", "file"} => Flatten(msg_files) \o msg_buffer = msg_generated
        /\ msg_pc = "done" =>
              /\ Flatten(msg_files) = msg_generated
              /\ Len(msg_generated) = msg_count

\* a buffered run has written its first block of 1000 rows and has a
\* further generated row waiting in the buffer
C17_Witness ==
    /\ msg_mode = "optimized_csv" /\ msg_pc = "loop"
    /\ Len(msg_files[1]) = 1000
    /\ Len(msg_buffer) = 1
    /\ Len(msg_generated) = 1001

\* C18: in every generated Message row forwarded is true exactly when the
\* row's forwarded_message_ids list is not empty.
C18_ForwardedIffIds ==
    msg_row # NoRow => (msg_row.forwarded <=> msg_row.forwarded_message_ids # <<>>)

\* C19: in every PeerId row written by generate_peerids_csv or by
\* generate_optimized_peerids, last_message_ts is strictly greater than
\* invite_timestamp.
C19_LastAfterInvite ==
    \A k \in 1..Len(peer_written) :
        peer_written[k].last_message_ts > peer_written[k].invite_timestamp

\* the Message part of C20: a row generated with chat_id given has that
\* chat_id
MessageChatIdCarried ==
    (msg_row # NoRow /\ msg_chat_arg # None) => msg_row.chat_id = msg_chat_arg

\* C20: a given natural key is carried by the generated row: a Message row
\* has the given chat_id, a UserToMessage row has the given user_id and
\* the given peer_id, whether one of the two or both are given.
C20_KeyOverridesCarried ==
    /\ MessageChatIdCarried
    /\ u2m_row # NoRow =>
          /\ u2m_args[1] # None => u2m_row.user_id = u2m_args[1]
          /\ u2m_args[2] # None => u2m_row.peer_id = u2m_args[2]

C22_RandomCallReturns ==
    u2m_pc # "searching"

\* the rows an instance of the given seed produces in its first n calls
\* when nothing else touches its state
OwnRows(seed, n) == [k \in 1..n |-> Rand(seed, k)]

\* C23: the rows an instance has produced depend only on its own seed and
\* its own calls, whatever other instances were constructed or drew rows
\* in between.
C23_InstanceStatePrivate ==
    \A i \in Insts :
        inst_seed[i] # None => inst_rows[i] = OwnRows(inst_seed[i], Len(inst_rows[i]))

\* C24 as claimed: at every point of a buffered run, and when the run is
\* stopped there, the rows handed to the file are a prefix of the generated
\* rows, the rows not in the file are exactly the rows in the buffer, they
\* are the most recently generated ones, and they are fewer than 1000.
C24_StoppedRunAsClaimed ==
    (IsBuffered(msg_mode) /\ msg_pc \in {"loop", "stopped"}) =>
        LET written == msg_files[1]
            n == Len(written)
        IN  /\ n <= Len(msg_generated)
            /\ written = SubSeq(msg_generated, 1, n)
            /\ msg_buffer = SubSeq(msg_generated, n + 1, Len(msg_generated))
            /\ Len(msg_buffer) < 1000

\* C24 amended: at every point of a buffered run, and when the run is
\* stopped there, the rows handed to the file are a prefix of the generated
\* rows; the rows not in the file are the most recently generated ones,
\* they are all in the buffer, at its end, and they are at most 1000;
\* between two iterations they are exactly the rows in the buffer and
\* fewer than 1000.
C24_StoppedRunKeepsPrefix ==
    (IsBuffered(msg_mode) /\ msg_pc \in {"loop", "stopped"}) =>
        LET written == msg_files[1]
            n == Len(written)
            lost == SubSeq(msg_generated, n + 1, Len(msg_generated))
        IN  /\ n <= Len(msg_generated)
            /\ written = SubSeq(msg_generated, 1, n)
            /\ Len(lost) <= Len(msg_buffer)
            /\ lost = SubSeq(msg_buffer, Len(msg_buffer) - Len(lost) + 1, Len(msg_buffer))
            /\ Len(lost) <= 1000
            /\ msg_pc = "loop" => (lost = msg_buffer /\ Len(lost) < 1000)

\* a buffered PeerIds run was stopped right after the append of its 1000th
\* row: the file holds no row and the 1000 rows of the buffer are lost
C24_Witness ==
    /\ msg_mode = "peer_optimized" /\ msg_pc = "stopped"
    /\ Len(msg_generated) = 1000
    /\ Len(msg_files[1]) = 0
    /\ Len(msg_buffer) = 1000

\* the scan part of C25: every step of the loop moves the position forward
\* by at least one character and stays in the loop, whatever the text
ScanAdvances ==
    [][Scanning => (scan_i' >= scan_i + 1 /\ scan_pc' = "scan")]_vars

\* the scan ended inside a quoted string, inside a list or after a
\* backslash, or with characters pending
Unterminated == in_quotes \/ in_list \/ escape_next \/ current # <<>>

\* C25: on every input text each step of the scan advances the position by
\* at least one character, and at the end of the input the call returns the
\* values accumulated so far with the unterminated token added to them.
C25_NeverAborts ==
    [][/\ Scanning => (scan_i' >= scan_i + 1 /\ scan_pc' = "scan")
       /\ (scan_pc = "scan" /\ scan_i >= Len(values_str)) =>
             /\ scan_pc' = "done"
             /\ values' = IF Unterminated
                           THEN Append(values, clean_value(Strip(current)))
                           ELSE values]_vars

\* C26: a finished PeerIds writer, called with a count of at least one and
\* a non-empty chat id list, has written exactly count data rows.
C26_ExactRowCount ==
    (peer_mode \in {"csv", "optimized"} /\ peer_pc = "done" /\ peer_count >= 1) =>
        Len(peer_written) = peer_count

\* the (user_id, peer_id, chat_local_id) triples of the rows emitted so far
EmittedTriples ==
    UNION {{<<k[1], k[2], u2m_emitted[k][n]>> : n \in 1..Len(u2m_emitted[k])} :
              k \in AllPairs}

\* C27: after any sequence of generate_record_row calls, generated_messages
\* is the set of the triples of the emitted rows, no two rows of a pair
\* have the same chat_local_id, the counter of every pair is the number of
\* rows emitted for it, and the duplicate-key branch has never been taken.
C27_Bookkeeping ==
    /\ generated_messages = EmittedTriples
    /\ \A k \in AllPairs : \A m, n \in 1..Len(u2m_emitted[k]) :
          m # n => u2m_emitted[k][m] # u2m_emitted[k][n]
    /\ \A k \in AllPairs : Get0(chat_local_counter, k) = Len(u2m_emitted[k])
    /\ DOMAIN chat_local_counter = {k \in AllPairs : u2m_emitted[k] # <<>>}
    /\ ~u2m_dup

C27_Witness ==
    /\ u2m_kinds = {"pinned", "random"}
    /\ \E k \in AllPairs : Len(u2m_emitted[k]) > MaxPerPair
    /\ \E k \in AllPairs : Len(u2m_emitted[k]) = 1
    /\ Cardinality(generated_messages) >= 5

\* strings without backslash or newline whose SQL literal is a text of the scan
LiteralStrings == SeqsUpTo(ParseChars \ {BS, NL}, MaxLen - 2)

\* C28: the literal that escape_sql_value writes for a string s without
\* backslash or newline is tokenized by parse_sql_values into the single
\* value s.
C28_LiteralRoundTrip ==
    \A s \in LiteralStrings :
        (scan_pc = "done" /\ src_text = escape_sql_value(s)) => values = <<s>>

\* csv.reader with quotechar '"' and doubled-quote escaping on one line:
\* mode is "start" at the beginning of a field, "quoted" inside a quoted
\* field and "in" elsewhere
RECURSIVE CsvRead(_, _, _, _)
CsvRead(s, field, mode, out) ==
    IF s = <<>> THEN Append(out, field)
    ELSE IF mode = "quoted"
         THEN IF s[1] # DQ THEN CsvRead(Tail(s), Append(field, s[1]), "quoted", out)
              ELSE IF Len(s) >= 2 /\ s[2] = DQ
                   THEN CsvRead(SubSeq(s, 3, Len(s)), Append(field, DQ), "quoted", out)
                   ELSE CsvRead(Tail(s), field, "in", out)
         ELSE IF s[1] = "," THEN CsvRead(Tail(s), <<>>, "start", Append(out, field))
              ELSE IF s[1] = DQ /\ mode = "start" THEN CsvRead(Tail(s), field, "quoted", out)
              ELSE CsvRead(Tail(s), Append(field, s[1]), "in", out)

\* the values of generate_message_row before escape_csv_value is applied
UnescapedRowFields(m) ==
    <<IntToStr(m.chat_msg_local_id), m.text, m.kludges,
      Lower(BoolToStr(m.forwarded)), CsvList(m.forwarded_message_ids)>>

PlainRowsReadBack ==
    (path_gen_pc = "done" /\ ~HasSpecial(path_msg.text) /\ path_msg.kludges = <<>>) =>
        CsvRead(path_gen_line, <<>>, "start", <<>>) = UnescapedRowFields(path_msg)

\* the writers of the two generators that have all three output modes
GeneratorModes ==
    {"csv_file", "optimized_csv", "multiple_csv",
     "u2m_csv_file", "u2m_optimized_csv", "u2m_multiple_csv"}

\* the indices of the row-generation calls of a run of count rows
CallIndices(count) == [k \in 1..count |-> k - 1]

\* C30: whatever the output mode, a finished run has issued the row calls
\* of indices 0 .. count-1 in that order (call number n has index n-1 at
\* every point of the run) and its data rows, shards concatenated in order,
\* are the rows of those calls in that order: the written sequence depends
\* on count and not on the mode.
C30_ModeIndependent ==
    msg_mode \in GeneratorModes =>
        /\ msg_generated # <<>> =>
              msg_generated[Len(msg_generated)] = Len(msg_generated) - 1
        /\ msg_pc = "done" =>
              /\ msg_generated = CallIndices(msg_count)
              /\ Flatten(msg_files) = CallIndices(msg_count)

C30_Witness ==
    /\ msg_mode = "multiple_csv" /\ msg_pc = "done"
    /\ msg_count = MaxMsgCount /\ msg_per_file = 700
    /\ Len(msg_files) = 3
    /\ msg_files[3][1] = 1400
    /\ Flatten(msg_files) = CallIndices(MaxMsgCount)

====
